---- MODULE Spec2Model ----
(***************************************************************************)
(* Fractal-Visualiser: a model of the fractal generation engine.           *)
(*                                                                         *)
(* Numbers.  The JavaScript code computes on IEEE doubles.  The model      *)
(* computes on exact rationals and draws its inputs from dyadic grids      *)
(* (integers, halves), on which every double operation the modelled code   *)
(* performs is exact, so the model and the code agree value for value.     *)
(* A complex number is a record [n, m, d] standing for (n + m*i)/d with    *)
(* d > 0 and gcd(n, m, d) = 1.                                             *)
(***************************************************************************)
EXTENDS Integers, Sequences, FiniteSets, TLC

VARIABLES
    \* --- 2D escape-time pages (mandelbrot.js, julia.js, mandelJuliaConnection.js)
    escP,        \* the domain point of the pixel being computed
    escK,        \* juliaK / constantK, the Julia constant
    escMaxIter,  \* maxIter, the iteration budget
    mIter,       \* result of mandelbrotEscape(escP), -1 before the call
    jIter,       \* result of juliaEscape(escP), -1 before the call
    jArg,        \* the object passed to juliaEscape as z, as it is after the call
    dMode,       \* mode of the combined page when drawFractal ran, "" before
    dIter,       \* iteration count drawFractal computed for the pixel, -1 before
    \* --- polyhedra.js: one call of generateChaosGame
    cgPc,        \* "idle", "call", "loop" or "done"
    cgTargets,   \* targets
    cgLam,       \* lambda, in units of 1/LambdaDen
    cgIters,     \* iters
    cgNoRepeat,  \* constraints.noRepeat
    cgNoOppFace, \* constraints.noOppFace
    cgI,         \* i, the outer loop counter
    cgGuard,     \* guard, the retry counter of the step in progress
    cgP,         \* p, as [v |-> <<x, y, z>>, d |-> denominator]
    cgLastIndex, \* lastIndex
    cgPts,       \* pts
    cgResult,    \* the returned array
    cgHist,      \* history of the latest step: what it drew and what it used
    \* --- affine.js: one call of generateAffineFractal
    afPc,        \* "idle", "call", "loop", "done" or "error" (an exception left the call)
    afMaps,      \* maps
    afN,         \* n
    afI,         \* i
    afP,         \* p, as [x |-> , y |-> , d |-> denominator]
    afPoints,    \* points
    afResult,    \* the returned array
    afDraw,      \* history of the latest chooseMap: the r drawn and the map returned
    \* --- newtonMethod.js: the page
    nPc,         \* "idle", "loading" (the script has not reached its drawNewton()) or "ready"
    nView,       \* view: [min, max, zoomLevel], min = xMin + i*yMin, max = xMax + i*yMax
    nRes,        \* res, also canvas.width and canvas.height after a pass
    nMaxIter,    \* maxIter
    nK,          \* kVals
    nRoots,      \* roots of the latest drawNewton pass, as it was when the pass ended
    nImg,        \* the newtonConverge result of every pixel of that pass, in scan order
    nPrevRoots,  \* history: roots of the pass before the latest
    nPlaying,    \* isPlaying
    nPending,    \* the frame animationId names is pending
    nFrames,     \* calls of animateZoom that have zoomed so far
    nEvents,     \* events handled since the page loaded
    \* --- newtonMethod.js: classifyRoot called on one registry
    crPc,        \* "idle", "ready" or "called"
    crRoots,     \* roots
    crZ,         \* z of the latest call
    crIdx,       \* the index the latest call returned, -1 before the first
    crBefore,    \* history: roots as it was when the latest call began
    \* --- affine.js: the page
    apPc,        \* "idle" or "ready" (the script has run to its end)
    affineMaps,  \* affineMaps: each map as [a11, a12, a21, a22, b1, b2, prob], every
                 \* entry a fraction [n, d]
    apSteps,     \* stepPoints.length
    apSample,    \* history: the handler that last sampled from affineMaps and the
                 \* sum of the probabilities it sampled with
    apView,      \* view: xMin, xMax, yMin, yMax, zoomLevel as numerators over den
    apEvents,    \* events handled so far
    \* --- lSystem.js: one call of generateLSystemString
    lsPc,         \* "idle", "call", "loop" or "done"
    lsAxiom,      \* axiom
    lsRules,      \* rules
    lsIterations, \* iterations
    lsI,          \* i
    lsResult,     \* result
    lsPrev,       \* history: result as it was before the latest iteration
    lsReturn,     \* the returned string
    \* --- lSystem.js: turtle interpretation of one instruction string
    ttPc,         \* "idle", "set" (instructions and currentSystem set), "animating",
                  \* "drawn" (the animation reached the end) or "failed" (a TypeError)
    ttInstr,      \* instructions / instr
    ttAngleDeg,   \* currentSystem.angle / angleDeg
    ttStep,       \* currentSystem.step / step
    ttStartAngle, \* currentSystem.startAngle / startAngle, in degrees
    ttFit,        \* the locals of the latest fitToCanvas when its loop ended
    ttRender,     \* the locals of the latest renderLSystem when its loop ended
    ttRendered,   \* "no", "yes" or "failed": what became of the latest renderLSystem
    ttAnim,       \* the locals of drawLSystemAnimated: pos, angle, stack and the path
    ttStepIndex,  \* stepIndex
    ttSystem,     \* currentSystem is not null
    \* --- spaceFill.js: the curve generators called with one depth
    sfN,          \* n, -1 when there is no call
    sfView,       \* view
    hbPc,         \* generateHilbert: "idle", "loop" or "done"
    hbD,          \* generateHilbert: d
    hbCells,      \* history: the (x, y) decoded from every d so far
    hbPoints,     \* generateHilbert: points
    hrPc,         \* generateHilbertRecursive: "idle", "call" or "done"
    hrPts,        \* generateHilbertRecursive: pts
    zoPc,         \* generateZOrder: "idle", "loop" or "done"
    zoI,          \* generateZOrder: i
    zoCells,      \* history: the (x, y) collected from every i so far
    zoPoints,     \* generateZOrder: points
    \* --- spaceFill.js: generateGray, generateMoore, generatePeano with one depth
    gmN,          \* n / depth, -1 when there is no call
    gmView,       \* view
    grPc,         \* generateGray: "idle", "loop" or "done"
    grI,          \* generateGray: i
    grCells,      \* history: the (x, y) collected from every i so far
    grPts,        \* generateGray: pts
    moPc,         \* generateMoore: "idle", "call", "loop" or "done"
    moI,          \* generateMoore: i
    moCells,      \* history: the (x, y) computed for every i so far
    moPts,        \* generateMoore: pts
    pePc,         \* generatePeano: "idle", "call" or "done"
    pePoints,     \* generatePeano: the returned array
    \* --- spaceFill.js: the page (view, buttons, timers and frame requests)
    cpView,       \* view: zoomLevel, offsetX, offsetY as numerators over den
    cpCurve,      \* curve
    cpDepth,      \* depth
    cpLineColor,  \* TRUE once the global lineColor has been assigned
    cpPoints,     \* drawingPoints
    cpIndex,      \* drawIndex
    cpAnimating,  \* isAnimating
    cpAnimId,     \* animationId: FALSE is null, TRUE the id of the last timer set
    cpPaused,     \* paused
    cpTimerLast,  \* the timer whose id animationId holds is pending
    cpTimersOld,  \* the number of other pending timers
    cpFrames,     \* the number of pending requestAnimationFrame(drawNextPoint)
    cpClicks,     \* clicks, wheel and drag events so far
    cpCalls,      \* history: [curve, depth, pts] of every generateCurvePoints call
    \* --- 3DFractals.js: generateMandelbulb / generateJulia3D, one call
    b3Pc,         \* "idle", "loop" or "done"
    b3Family,     \* "mandelbulb" or "julia3D"
    b3Args,       \* iterations, power, bailout, density, c
    b3I,          \* i
    b3Result,     \* result
    b3Seeds,      \* history: the seed Math.random gave to every sample so far
    \* --- newtonMethod.js: newtonConverge called on one registry
    ncPc,         \* "idle", "ready" or "called"
    ncArgs,       \* z0, k, maxIter of the last call
    ncRoots,      \* roots
    ncBefore,     \* history: roots as it was before the last call
    ncResult,     \* the object the last call returned
    \* --- plane-iteration visualiser: play / pause, clear and the frame callback
    pvPlaying,    \* playing
    pvPaths,      \* paths is not null
    pvLen,        \* paths[0].length - 1, 0 while paths is null
    pvIterations, \* what the iterations control holds
    pvFx,         \* what the fx and gy controls hold, one of FxKinds
    pvDragging,   \* dragging
    pvStep,       \* stepIndex
    pvFrameId,    \* animationFrameId is not null
    pvPending,    \* the frame requested last has neither fired nor been cancelled
    pvClicks,     \* clicks so far
    pvLast,       \* history: what the last event did
    pvLinesMode   \* linesMode

escVars == <<escP, escK, escMaxIter, mIter, jIter, jArg, dMode, dIter>>

cgVars == <<cgPc, cgTargets, cgLam, cgIters, cgNoRepeat, cgNoOppFace, cgI, cgGuard,
            cgP, cgLastIndex, cgPts, cgResult, cgHist>>

afVars == <<afPc, afMaps, afN, afI, afP, afPoints, afResult, afDraw>>

pgVars == <<nPc, nView, nRes, nMaxIter, nK, nRoots, nImg, nPrevRoots, nPlaying,
            nPending, nFrames, nEvents>>

crVars == <<crPc, crRoots, crZ, crIdx, crBefore>>

nwVars == <<pgVars, crVars>>

apVars == <<apPc, affineMaps, apSteps, apSample, apView, apEvents>>

lsVars == <<lsPc, lsAxiom, lsRules, lsIterations, lsI, lsResult, lsPrev, lsReturn>>

ttVars == <<ttPc, ttInstr, ttAngleDeg, ttStep, ttStartAngle, ttFit, ttRender,
            ttRendered, ttAnim, ttStepIndex, ttSystem>>

sfVars == <<sfN, sfView, hbPc, hbD, hbCells, hbPoints, hrPc, hrPts, zoPc, zoI,
            zoCells, zoPoints>>

gmVars == <<gmN, gmView, grPc, grI, grCells, grPts, moPc, moI, moCells, moPts,
            pePc, pePoints>>

cpVars == <<cpView, cpCurve, cpDepth, cpLineColor, cpPoints, cpIndex, cpAnimating,
            cpAnimId, cpPaused, cpTimerLast, cpTimersOld, cpFrames, cpClicks, cpCalls>>

b3Vars == <<b3Pc, b3Family, b3Args, b3I, b3Result, b3Seeds>>

ncVars == <<ncPc, ncArgs, ncRoots, ncBefore, ncResult>>

pvVars == <<pvPlaying, pvPaths, pvLen, pvIterations, pvFx, pvDragging, pvStep,
            pvFrameId, pvPending, pvClicks, pvLast, pvLinesMode>>

moreVars == <<apVars, lsVars, ttVars, sfVars, gmVars, cpVars, b3Vars, ncVars,
              pvVars>>

vars == <<escVars, cgVars, afVars, nwVars, moreVars>>

(***************************************************************************)
(* Bounds of the model.                                                    *)
(***************************************************************************)
\* Coordinates are drawn from the half-integer grid k/2 with |k| <= CoordMax.
CoordMax == 4
\* Iteration budgets tried on every grid point.
MaxIter == 3
\* Iteration budgets tried on the integer points of the grid, whose orbits
\* stay integer and small while they have not escaped.
LongIter == 10

(***************************************************************************)
(* Exact complex arithmetic.                                               *)
(***************************************************************************)
Abs(a) == IF a < 0 THEN -a ELSE a

RECURSIVE Gcd(_, _)
Gcd(a, b) == IF b = 0 THEN a ELSE Gcd(b, a % b)

\* (n + m*i)/d in lowest terms, d > 0; d = 0 is kept for a value that is
\* not finite (Infinity or NaN in a component).
Cx(n, m, d) ==
    LET s == IF d < 0 THEN -1 ELSE 1
        g == Gcd(Gcd(Abs(n), Abs(m)), Abs(d))
    IN  IF d = 0 THEN [n |-> 0, m |-> 0, d |-> 0]
        ELSE [n |-> (s * n) \div g, m |-> (s * m) \div g, d |-> (s * d) \div g]

CZero == [n |-> 0, m |-> 0, d |-> 1]

\* z*z + c, the step shared by the three escape loops:
\* re' = x*x - y*y + cx, im' = 2*x*y + cy, both from the old x and y.
SqrPlus(z, c) ==
    Cx((z.n * z.n - z.m * z.m) * c.d + c.n * z.d * z.d,
       (2 * z.n * z.m) * c.d + c.m * z.d * z.d,
       z.d * z.d * c.d)

\* x*x + y*y <= 4
NormLe4(z) == z.n * z.n + z.m * z.m <= 4 * z.d * z.d

\* The half-integer grid the inputs are drawn from.
Grid == { Cx(a, b, 2) : a \in -CoordMax..CoordMax, b \in -CoordMax..CoordMax }

IsIntegerPoint(z) == z.d = 1

(***************************************************************************)
(* mandelbrot.js: mandelbrotEscape(cx, cy, maxIter).                       *)
(* The two operands of the loop condition have no side effect; the model   *)
(* tests the budget first so that the norm of the last iterate, which the  *)
(* result does not depend on, is not computed.                             *)
(***************************************************************************)
RECURSIVE MandelLoop(_, _, _, _)
MandelLoop(z, c, iter, maxIter) ==
    IF iter < maxIter /\ NormLe4(z)
    THEN MandelLoop(SqrPlus(z, c), c, iter + 1, maxIter)
    ELSE iter

\* A loop that runs while iter <= maxIter: one iteration too many.
RECURSIVE MandelLoopOffByOne(_, _, _, _)
MandelLoopOffByOne(z, c, iter, maxIter) ==
    IF iter <= maxIter /\ NormLe4(z)
    THEN MandelLoopOffByOne(SqrPlus(z, c), c, iter + 1, maxIter)
    ELSE iter

mandelbrotEscapeOffByOne(c, maxIter) == MandelLoopOffByOne(CZero, c, 0, maxIter)

mandelbrotEscape(c, maxIter) == MandelLoop(CZero, c, 0, maxIter)

(***************************************************************************)
(* julia.js: juliaEscape(z), reading the globals maxIter and juliaK.       *)
(* The function assigns z.re and z.im of the object it is given; the       *)
(* result is the pair of the count and the object as it is left.           *)
(***************************************************************************)
RECURSIVE JuliaLoop(_, _, _, _)
JuliaLoop(z, k, iteration, max) ==
    IF iteration < max /\ NormLe4(z)
    THEN JuliaLoop(SqrPlus(z, k), k, iteration + 1, max)
    ELSE [iter |-> iteration, z |-> z]

\* A bailout test |z|^2 < 4 in place of |z|^2 <= 4.
RECURSIVE JuliaLoopStrict(_, _, _, _)
JuliaLoopStrict(z, k, iteration, max) ==
    IF iteration < max /\ ~(z.n * z.n + z.m * z.m >= 4 * z.d * z.d)
    THEN JuliaLoopStrict(SqrPlus(z, k), k, iteration + 1, max)
    ELSE [iter |-> iteration, z |-> z]

juliaEscapeStrict(z, k, max) == JuliaLoopStrict(z, k, 0, max)

juliaEscape(z, k, max) == JuliaLoop(z, k, 0, max)

(***************************************************************************)
(* mandelJuliaConnection.js: the per-pixel loop of drawFractal.            *)
(***************************************************************************)
RECURSIVE DrawLoop(_, _, _, _)
DrawLoop(z, c, iter, maxIter) ==
    IF iter < maxIter /\ NormLe4(z)
    THEN DrawLoop(SqrPlus(z, c), c, iter + 1, maxIter)
    ELSE iter

\* The two initialisations attached to the wrong modes.
drawFractalPixelSwapped(mode, p, constantK, maxIter) ==
    IF mode = "mandelbrot"
    THEN DrawLoop(p, constantK, 0, maxIter)
    ELSE DrawLoop(CZero, p, 0, maxIter)

drawFractalPixel(mode, p, constantK, maxIter) ==
    IF mode = "mandelbrot"
    THEN DrawLoop(CZero, p, 0, maxIter)
    ELSE DrawLoop(p, constantK, 0, maxIter)

(***************************************************************************)
(* The escape-time specification: the inputs are drawn in Init, the        *)
(* actions apply the three functions to them.                              *)
(***************************************************************************)
\* The pages are separate documents: while one is modelled the state of the
\* others stays as below.
EscIdle ==
    /\ escP = CZero /\ escK = CZero /\ escMaxIter = 0
    /\ mIter = -1 /\ jIter = -1 /\ jArg = CZero /\ dMode = "" /\ dIter = -1

EscStart ==
    /\ escP \in Grid
    /\ escK \in Grid
    /\ \/ escMaxIter \in 0..MaxIter
       \/ /\ IsIntegerPoint(escP) /\ IsIntegerPoint(escK)
          /\ escMaxIter \in 0..LongIter
    /\ mIter = -1
    /\ jIter = -1
    /\ jArg = escP
    /\ dMode = ""
    /\ dIter = -1

CallMandelbrotEscape ==
    /\ mIter = -1
    /\ mIter' = mandelbrotEscape(escP, escMaxIter)
    /\ UNCHANGED <<escP, escK, escMaxIter, jIter, jArg, dMode, dIter>>
    /\ UNCHANGED <<cgVars, afVars, nwVars, moreVars>>

CallJuliaEscape ==
    /\ jIter = -1
    /\ LET r == juliaEscape(escP, escK, escMaxIter)
       IN  /\ jIter' = r.iter
           /\ jArg' = r.z
    /\ UNCHANGED <<escP, escK, escMaxIter, mIter, dMode, dIter>>
    /\ UNCHANGED <<cgVars, afVars, nwVars, moreVars>>

CallDrawFractal ==
    /\ dIter = -1
    /\ \E mode \in {"mandelbrot", "julia"} :
          /\ dMode' = mode
          /\ dIter' = drawFractalPixel(mode, escP, escK, escMaxIter)
    /\ UNCHANGED <<escP, escK, escMaxIter, mIter, jIter, jArg>>
    /\ UNCHANGED <<cgVars, afVars, nwVars, moreVars>>

EscNext == CallMandelbrotEscape \/ CallJuliaEscape \/ CallDrawFractal

(***************************************************************************)
(* polyhedra.js: generateChaosGame(targets, lambda, iters, constraints).   *)
(* Each Math.random() draw is an input; p is kept as an exact vector       *)
(* v/d.  Indices are 0-based as in the code, so targets[idx] is the        *)
(* sequence element idx + 1.                                               *)
(***************************************************************************)
\* The cap of the retry loop: for (let guard = 0; guard < 20; guard++).
RetryCap == 20
\* oppThresh = -0.2, as the fraction OppThreshNum / OppThreshDen.
OppThreshNum == -1
OppThreshDen == 5
\* lambda is drawn from the multiples of 1/LambdaDen strictly between 0 and 1.
LambdaDen == 2
\* Longest target list and largest iteration count tried.
MaxTargets == 4
MaxChaosIters == 3

\* solids.octa.vertices
OctaVertices ==
    << <<1, 0, 0>>, <<-1, 0, 0>>, <<0, 1, 0>>, <<0, -1, 0>>, <<0, 0, 1>>, <<0, 0, -1>> >>

TargetLists == { SubSeq(OctaVertices, 1, k) : k \in 0..MaxTargets }

dot3(a, b) == a[1] * b[1] + a[2] * b[2] + a[3] * b[3]

\* dot3(normalise(p), t) < oppThresh for p = v/d.  normalise divides by
\* len3(p), or by 1 when p is the zero vector, so the test is
\* dot3(v, t) / |v| < OppThreshNum / OppThreshDen, decided on squares.
OppFace(p, t) ==
    LET s == OppThreshDen * dot3(p.v, t)
    IN  /\ s < 0
        /\ s * s > OppThreshNum * OppThreshNum * dot3(p.v, p.v)

\* The draw is skipped with `continue`.
RejectedNoRepeatLost(idx, lastIndex, p, targets, noRepeat, noOppFace) ==
    noOppFace /\ OppFace(p, targets[idx + 1])

Rejected(idx, lastIndex, p, targets, noRepeat, noOppFace) ==
    \/ noRepeat /\ idx = lastIndex
    \/ noOppFace /\ OppFace(p, targets[idx + 1])

\* The retry loop is left by `break` on an accepted draw, or by its
\* condition guard < 20 after the increment that follows a `continue`.
RetryLoopEndsNoCap(guard, rejected) == ~rejected

RetryLoopEnds(guard, rejected) == ~rejected \/ guard + 1 >= RetryCap

\* add3(scale3(p, 1 - lambda), scale3(t, lambda)) with lambda = lam/LambdaDen
Blend(p, t, lam) ==
    [v |-> << (LambdaDen - lam) * p.v[1] + lam * p.d * t[1],
              (LambdaDen - lam) * p.v[2] + lam * p.d * t[2],
              (LambdaDen - lam) * p.v[3] + lam * p.d * t[3] >>,
     d |-> LambdaDen * p.d]

P3Zero == [v |-> <<0, 0, 0>>, d |-> 1]

\* cgHist before any draw.
\*   draws   - the number of draws the latest completed step made
\*   last    - the index its last draw gave
\*   prev    - lastIndex as it was when that step began
\*   allPrev - every draw of that step gave the index prev
\*   allRej  - every draw of that step was rejected
\*   cur     - every draw made so far in the step in progress gave lastIndex
NoHist == [draws |-> 0, last |-> -1, prev |-> -1, allPrev |-> FALSE, allRej |-> FALSE,
           cur |-> TRUE]

CgIdle ==
    /\ cgPc = "idle" /\ cgTargets = <<>> /\ cgLam = 1 /\ cgIters = 0
    /\ cgNoRepeat = FALSE /\ cgNoOppFace = FALSE
    /\ cgI = 0 /\ cgGuard = 0 /\ cgP = P3Zero /\ cgLastIndex = -1
    /\ cgPts = <<>> /\ cgResult = <<>> /\ cgHist = NoHist

CgStart ==
    /\ cgPc = "call"
    /\ cgTargets \in TargetLists
    /\ cgLam \in 1..(LambdaDen - 1)
    /\ cgIters \in 0..MaxChaosIters
    /\ cgNoRepeat \in BOOLEAN
    /\ cgNoOppFace \in BOOLEAN
    /\ cgI = 0 /\ cgGuard = 0 /\ cgP = P3Zero /\ cgLastIndex = -1
    /\ cgPts = <<>> /\ cgResult = <<>> /\ cgHist = NoHist

\* if (!targets || !targets.length) return []; then the locals.
CgCall ==
    /\ cgPc = "call"
    /\ IF Len(cgTargets) = 0
       THEN cgPc' = "done" /\ cgResult' = <<>>
       ELSE cgPc' = "loop" /\ cgResult' = cgResult
    /\ cgPts' = <<>> /\ cgP' = P3Zero /\ cgLastIndex' = -1
    /\ cgI' = 0 /\ cgGuard' = 0
    /\ UNCHANGED <<cgTargets, cgLam, cgIters, cgNoRepeat, cgNoOppFace, cgHist>>
    /\ UNCHANGED <<escVars, afVars, nwVars, moreVars>>

\* A draw that is rejected while the retry loop goes on.
CgRetry ==
    /\ cgPc = "loop"
    /\ cgI < cgIters
    /\ \E idx \in 0..(Len(cgTargets) - 1) :
          LET rej == Rejected(idx, cgLastIndex, cgP, cgTargets, cgNoRepeat, cgNoOppFace)
          IN  /\ rej
              /\ ~RetryLoopEnds(cgGuard, rej)
              /\ cgGuard' = cgGuard + 1
              /\ cgHist' = [cgHist EXCEPT !.cur = @ /\ idx = cgLastIndex]
    /\ UNCHANGED <<cgPc, cgTargets, cgLam, cgIters, cgNoRepeat, cgNoOppFace, cgI,
                   cgP, cgLastIndex, cgPts, cgResult>>
    /\ UNCHANGED <<escVars, afVars, nwVars, moreVars>>

\* The draw that ends the retry loop, and the rest of the step: the point
\* moves towards targets[idx], is pushed, and idx becomes lastIndex.
CgStep ==
    /\ cgPc = "loop"
    /\ cgI < cgIters
    /\ \E idx \in 0..(Len(cgTargets) - 1) :
          LET rej == Rejected(idx, cgLastIndex, cgP, cgTargets, cgNoRepeat, cgNoOppFace)
              np  == Blend(cgP, cgTargets[idx + 1], cgLam)
          IN  /\ RetryLoopEnds(cgGuard, rej)
              /\ cgP' = np
              /\ cgPts' = Append(cgPts, np)
              /\ cgLastIndex' = idx
              /\ cgHist' = [draws   |-> cgGuard + 1,
                            last    |-> idx,
                            prev    |-> cgLastIndex,
                            allPrev |-> cgHist.cur /\ idx = cgLastIndex,
                            allRej  |-> rej,
                            cur     |-> TRUE]
    /\ cgI' = cgI + 1
    /\ cgGuard' = 0
    /\ UNCHANGED <<cgPc, cgTargets, cgLam, cgIters, cgNoRepeat, cgNoOppFace, cgResult>>
    /\ UNCHANGED <<escVars, afVars, nwVars, moreVars>>

\* return pts;
CgReturn ==
    /\ cgPc = "loop"
    /\ cgI >= cgIters
    /\ cgPc' = "done"
    /\ cgResult' = cgPts
    /\ UNCHANGED <<cgTargets, cgLam, cgIters, cgNoRepeat, cgNoOppFace, cgI, cgGuard,
                   cgP, cgLastIndex, cgPts, cgHist>>
    /\ UNCHANGED <<escVars, afVars, nwVars, moreVars>>

CgNext == CgCall \/ CgRetry \/ CgStep \/ CgReturn

(***************************************************************************)
(* affine.js: chooseMap, applyAffine, generateAffineFractal.               *)
(* Probabilities are multiples of 1/ProbUnits and the uniform draw r is a  *)
(* multiple of 1/(2 * ProbUnits) in [0, 1), so r falls on and between the  *)
(* running sums.  Matrix and vector entries are in halves.                 *)
(***************************************************************************)
ProbUnits == 4
MaxMaps == 3
MaxAffineN == 2

\* examples['Sierpinski Square'], entries in halves; the probabilities vary.
SquareMap(j, w) ==
    [a11 |-> 1, a12 |-> 0, a21 |-> 0, a22 |-> 1,
     b1 |-> (j - 1) % 2, b2 |-> ((j - 1) \div 2) % 2, prob |-> w]

MapLists ==
    UNION { { [j \in 1..k |-> SquareMap(j, w[j])] : w \in [1..k -> 0..ProbUnits] }
            : k \in 0..MaxMaps }

RDraws == 0..(2 * ProbUnits - 1)

\* The loop of chooseMap from map j on, acc being the running sum so far.
\* The result is the position of the returned map, 0 standing for the
\* `undefined` that maps[maps.length - 1] is on an empty list.
RECURSIVE ChooseLoop(_, _, _, _)
ChooseLoop(maps, r, j, acc) ==
    IF j > Len(maps)
    THEN Len(maps)
    ELSE IF r <= 2 * (acc + maps[j].prob)
         THEN j
         ELSE ChooseLoop(maps, r, j + 1, acc + maps[j].prob)

\* if (r < acc) in place of if (r <= acc)
RECURSIVE ChooseLoopStrict(_, _, _, _)
ChooseLoopStrict(maps, r, j, acc) ==
    IF j > Len(maps)
    THEN Len(maps)
    ELSE IF r < 2 * (acc + maps[j].prob)
         THEN j
         ELSE ChooseLoopStrict(maps, r, j + 1, acc + maps[j].prob)

chooseMapStrict(maps, r) == ChooseLoopStrict(maps, r, 1, 0)

chooseMap(maps, r) == ChooseLoop(maps, r, 1, 0)

\* y computed from a12 in place of a22
applyAffineWrongRow(p, matrix) ==
    [x |-> matrix.a11 * p.x + matrix.a12 * p.y + matrix.b1 * p.d,
     y |-> matrix.a21 * p.x + matrix.a12 * p.y + matrix.b2 * p.d,
     d |-> 2 * p.d]

\* applyAffine(p, matrix) for p = (x, y)/d and entries in halves.
applyAffine(p, matrix) ==
    [x |-> matrix.a11 * p.x + matrix.a12 * p.y + matrix.b1 * p.d,
     y |-> matrix.a21 * p.x + matrix.a22 * p.y + matrix.b2 * p.d,
     d |-> 2 * p.d]

\* examples['Shrinking Square']: the one map a11 = a22 = 0.5, a12 = a21 = 0,
\* b = 0, prob 1.
ShrinkingSquare == << SquareMap(1, ProbUnits) >>

Seeds == { [x |-> 0, y |-> 0, d |-> 1], [x |-> 1, y |-> -1, d |-> 1] }

NoDraw == [r |-> -1, choice |-> -1]

AfIdle ==
    /\ afPc = "idle" /\ afMaps = <<>> /\ afN = 0 /\ afI = 0
    /\ afP = [x |-> 0, y |-> 0, d |-> 1]
    /\ afPoints = <<>> /\ afResult = <<>> /\ afDraw = NoDraw

AfStart ==
    /\ afPc = "call"
    /\ afMaps \in MapLists
    /\ afN \in 0..MaxAffineN
    /\ afI = 0
    /\ afP \in Seeds
    /\ afPoints = <<>> /\ afResult = <<>> /\ afDraw = NoDraw

\* let points = []; let p = { x: x0, y: y0 };
AfCall ==
    /\ afPc = "call"
    /\ afPc' = "loop"
    /\ afPoints' = <<>>
    /\ afI' = 0
    /\ UNCHANGED <<afMaps, afN, afP, afResult, afDraw>>
    /\ UNCHANGED <<escVars, cgVars, nwVars, moreVars>>

\* One iteration of the loop.  With no map to return chooseMap gives
\* undefined, and applyAffine reading matrix.a11 throws a TypeError that
\* leaves generateAffineFractal.
AfStep ==
    /\ afPc = "loop"
    /\ afI < afN
    /\ \E r \in RDraws :
          LET j == chooseMap(afMaps, r)
          IN  /\ afDraw' = [r |-> r, choice |-> j]
              /\ IF j = 0
                 THEN /\ afPc' = "error"
                      /\ UNCHANGED <<afP, afPoints, afI>>
                 ELSE /\ afPc' = afPc
                      /\ afP' = applyAffine(afP, afMaps[j])
                      /\ afPoints' = Append(afPoints, applyAffine(afP, afMaps[j]))
                      /\ afI' = afI + 1
    /\ UNCHANGED <<afMaps, afN, afResult>>
    /\ UNCHANGED <<escVars, cgVars, nwVars, moreVars>>

\* return points;
AfReturn ==
    /\ afPc = "loop"
    /\ afI >= afN
    /\ afPc' = "done"
    /\ afResult' = afPoints
    /\ UNCHANGED <<afMaps, afN, afI, afP, afPoints, afDraw>>
    /\ UNCHANGED <<escVars, cgVars, nwVars, moreVars>>

AfNext == AfCall \/ AfStep \/ AfReturn

(***************************************************************************)
(* affine.js: the page.  affineMaps is edited by the example selector, the *)
(* map-count field, the matrix, vector and probability fields, the anchors *)
(* dragged on the canvas and the Normalize button; the handlers that       *)
(* generate points sample from it with chooseMap.  Coefficients and        *)
(* probabilities are exact fractions: the doubles of the code are their    *)
(* roundings, so a sum the model finds equal to 1 is 1 in the code up to   *)
(* rounding, and a sum the model finds different from 1 differs in the     *)
(* code by far more than rounding.  The points a handler generates are     *)
(* those of generateAffineFractal, modelled above; the page keeps only the *)
(* sum they were sampled with.  anchors holds b1 and b2 of every map after *)
(* each handler and is not followed apart from them.  Of the view, xMin,   *)
(* xMax, yMin, yMax and zoomLevel are numerators over the common           *)
(* denominator den, in lowest terms; 1.1 and 0.9 are followed as 11 / 10   *)
(* and 9 / 10, of which the doubles are the roundings.                     *)
(***************************************************************************)
MaxProbEdit == 1
MaxCountInput == 2
MaxProbDen == 3
MaxSteps == 1
MaxAffineEvents == 3

\* ensureMapsLength: n = Math.max(1, Math.min(10, Math.floor(n)))
MinMapCount == 1
MaxMapCount == 10

Frac(n, d) ==
    LET g == Gcd(Abs(n), d)
    IN  [n |-> n \div g, d |-> d \div g]

FracAdd(a, b) == Frac(a.n * b.d + b.n * a.d, a.d * b.d)

\* a / b for b > 0
FracDiv(a, b) == Frac(a.n * b.d, a.d * b.n)

\* Math.sqrt(3) / 2: n / d times the square root of root
Sqrt3Half == [n |-> 1, d |-> 2, root |-> 3]

\* { a11: 0.5, a12: 0, a21: 0, a22: 0.5, b1, b2, prob }
HalfMap(b1, b2, prob) ==
    [a11 |-> Frac(1, 2), a12 |-> Frac(0, 1), a21 |-> Frac(0, 1), a22 |-> Frac(1, 2),
     b1 |-> b1, b2 |-> b2, prob |-> prob]

\* examples[name] after JSON.parse(JSON.stringify(...))
ExampleNames == {"Sierpinski Triangle", "Sierpinski Square", "Shrinking Square"}

examples(name) ==
    CASE name = "Sierpinski Triangle" ->
             << HalfMap(Frac(0, 1), Frac(0, 1), Frac(1, 3)),
                HalfMap(Frac(1, 1), Frac(0, 1), Frac(1, 3)),
                HalfMap(Frac(1, 2), Sqrt3Half, Frac(1, 3)) >>
      [] name = "Sierpinski Square" ->
             << HalfMap(Frac(0, 1), Frac(0, 1), Frac(1, 4)),
                HalfMap(Frac(1, 2), Frac(0, 1), Frac(1, 4)),
                HalfMap(Frac(0, 1), Frac(1, 2), Frac(1, 4)),
                HalfMap(Frac(1, 2), Frac(1, 2), Frac(1, 4)) >>
      [] name = "Shrinking Square" ->
             << HalfMap(Frac(0, 1), Frac(0, 1), Frac(1, 1)) >>

\* affineMaps.reduce((s, m) => s + (+m.prob || 0), 0), from map j on.
RECURSIVE SumProbsFrom(_, _, _)
SumProbsFrom(maps, j, s) ==
    IF j > Len(maps) THEN s
    ELSE SumProbsFrom(maps, j + 1, FracAdd(s, maps[j].prob))

SumProbs(maps) == SumProbsFrom(maps, 1, Frac(0, 1))

\* normaliseProbs() on affineMaps = maps; the result is the new affineMaps.
normaliseProbs(maps) ==
    LET sum == SumProbs(maps)
        len == IF Len(maps) > 1 THEN Len(maps) ELSE 1
    IN  IF sum.n > 0
        THEN [j \in 1..Len(maps) |-> [maps[j] EXCEPT !.prob = FracDiv(@, sum)]]
        ELSE [j \in 1..Len(maps) |-> [maps[j] EXCEPT !.prob = Frac(1, len)]]

\* while (affineMaps.length < n) affineMaps.push({ ..., prob: 1 / (affineMaps.length + 1) })
RECURSIVE PushDefaults(_, _)
PushDefaults(maps, n) ==
    IF Len(maps) < n
    THEN PushDefaults(Append(maps, HalfMap(Frac(0, 1), Frac(0, 1),
                                           Frac(1, Len(maps) + 1))), n)
    ELSE maps

\* ensureMapsLength(n) on affineMaps = maps; the result is the new affineMaps.
ensureMapsLength(maps, n) ==
    LET lo      == IF n < MaxMapCount THEN n ELSE MaxMapCount
        clamped == IF lo > MinMapCount THEN lo ELSE MinMapCount
        pushed  == PushDefaults(maps, clamped)
        popped  == IF Len(pushed) > clamped THEN SubSeq(pushed, 1, clamped) ELSE pushed
    IN  normaliseProbs(popped)

\* selectExample(name), up to its resetView()
selectExample(name) == normaliseProbs(examples(name))

\* The values typed into a probability field, in halves.
ProbEdits == { Frac(v, 2) : v \in (-1)..MaxProbEdit }

\* Map counts typed into the mapCount field.
CountInputs == 0..MaxCountInput

\* The probabilities the model follows.
ProbsInRange(maps) == \A j \in 1..Len(maps) : maps[j].prob.d <= MaxProbDen

NoSample == [by |-> "", sum |-> Frac(0, 1)]

\* updateFractal() or stepOnce(), called by handler `by`: chooseMap(affineMaps)
\* draws from the probabilities as they are at the call.
Sampled(by, maps) == [by |-> by, sum |-> SumProbs(maps)]

\* The values typed into a matrix field and into a vector field.
MatrixEdits == { Frac(1, 4) }

VectorEdits == { Frac(3, 4) }

MatrixFields == {"a11", "a12", "a21", "a22"}

VectorFields == {"b1", "b2"}

\* e.offsetX / canvas.width and e.offsetY / canvas.height followed here
MouseFractions == {0, 1}

\* dx and dy of a mousemove while panning, in world units
PanMoves == { <<1, 0>>, <<0, -1>> }

AffineDefaultView ==
    [xMin |-> -2, xMax |-> 2, yMin |-> -2, yMax |-> 2, zoomLevel |-> 1, den |-> 1]

\* the view with its numbers in lowest terms
AffineView(x0, x1, y0, y1, z, d) ==
    LET g == Gcd(Gcd(Gcd(Abs(x0), Abs(x1)), Gcd(Abs(y0), Abs(y1))), Gcd(Abs(z), d))
    IN  [xMin |-> x0 \div g, xMax |-> x1 \div g, yMin |-> y0 \div g,
         yMax |-> y1 \div g, zoomLevel |-> z \div g, den |-> d \div g]

\* zoomView(mouseX, mouseY, delta) with mouseX / canvas.width = mx and
\* mouseY / canvas.height = my: factor = delta > 0 ? 1.1 : 0.9, the window
\* and zoomLevel are both multiplied by factor.
zoomView(v, mx, my, delta) ==
    LET factor == IF delta > 0 THEN 11 ELSE 9
        width  == (v.xMax - v.xMin) * factor
        height == (v.yMax - v.yMin) * factor
        x0     == 10 * v.xMin + mx * (v.xMax - v.xMin) * 10 - width * mx
        y0     == 10 * v.yMin + my * (v.yMax - v.yMin) * 10 - height * my
    IN  AffineView(x0, x0 + width, y0, y0 + height, v.zoomLevel * factor,
                   10 * v.den)

\* mousemove while panning: view.xMin -= dx, view.xMax -= dx, and y alike
panAffine(v, d) ==
    [v EXCEPT !.xMin = @ - d[1] * v.den, !.xMax = @ - d[1] * v.den,
              !.yMin = @ - d[2] * v.den, !.yMax = @ - d[2] * v.den]

\* mapPixelToRange(px, py) with px / canvas.width = mx and
\* py / canvas.height = my
mapPixelToRange(v, mx, my) ==
    [x |-> Frac(v.xMin + mx * (v.xMax - v.xMin), v.den),
     y |-> Frac(v.yMin + my * (v.yMax - v.yMin), v.den)]

ApIdle ==
    /\ apPc = "idle" /\ affineMaps = <<>> /\ apSteps = 0 /\ apSample = NoSample
    /\ apView = AffineDefaultView /\ apEvents = 0

\* The script has run: selectExample("Sierpinski Triangle");
\* ensureMapsLength(affineMaps.length || 3); renderAllEditors();
\* updateFractal();
ApStart ==
    /\ apPc = "ready"
    /\ affineMaps = ensureMapsLength(selectExample("Sierpinski Triangle"), 3)
    /\ apSteps = 0
    /\ apSample = Sampled("load", affineMaps)
    /\ apView = AffineDefaultView
    /\ apEvents = 0

\* resetView(): view = the default one, stepPoints = [], updateFractal()
resetView(by, maps) ==
    /\ apView' = AffineDefaultView
    /\ apSteps' = 0
    /\ apSample' = Sampled(by, maps)

\* exampleSelector change: selectExample(e.target.value), which ends in
\* resetView()
ApSelectExample ==
    /\ apPc = "ready" /\ apEvents < MaxAffineEvents
    /\ \E name \in ExampleNames :
          /\ affineMaps' = selectExample(name)
          /\ resetView("selectExample", selectExample(name))
    /\ apEvents' = apEvents + 1
    /\ UNCHANGED apPc
    /\ UNCHANGED <<escVars, cgVars, afVars, nwVars, lsVars, ttVars, sfVars, gmVars, cpVars, b3Vars, ncVars, pvVars>>

\* mapCount input: ensureMapsLength(desired); renderAllEditors(); updateFractal();
ApMapCount ==
    /\ apPc = "ready" /\ apEvents < MaxAffineEvents
    /\ \E desired \in CountInputs :
          /\ ProbsInRange(ensureMapsLength(affineMaps, desired))
          /\ affineMaps' = ensureMapsLength(affineMaps, desired)
          /\ apSample' = Sampled("mapCount", ensureMapsLength(affineMaps, desired))
    /\ apEvents' = apEvents + 1
    /\ UNCHANGED <<apPc, apSteps, apView>>
    /\ UNCHANGED <<escVars, cgVars, afVars, nwVars, lsVars, ttVars, sfVars, gmVars, cpVars, b3Vars, ncVars, pvVars>>

\* Input on field f of matrix i with the finite value v:
\* affineMaps[i][f] = v; updateFractal();
ApMatrixInput ==
    /\ apPc = "ready" /\ apEvents < MaxAffineEvents
    /\ \E i \in 1..Len(affineMaps), f \in MatrixFields, v \in MatrixEdits :
          LET edited == [affineMaps EXCEPT ![i][f] = v]
          IN  /\ affineMaps' = edited
              /\ apSample' = Sampled("matrixInput", edited)
    /\ apEvents' = apEvents + 1
    /\ UNCHANGED <<apPc, apSteps, apView>>
    /\ UNCHANGED <<escVars, cgVars, afVars, nwVars, lsVars, ttVars, sfVars, gmVars, cpVars, b3Vars, ncVars, pvVars>>

\* Input on field f of vector i with the finite value v:
\* affineMaps[i][f] = v; the anchor follows; updateFractal();
ApVectorInput ==
    /\ apPc = "ready" /\ apEvents < MaxAffineEvents
    /\ \E i \in 1..Len(affineMaps), f \in VectorFields, v \in VectorEdits :
          LET edited == [affineMaps EXCEPT ![i][f] = v]
          IN  /\ affineMaps' = edited
              /\ apSample' = Sampled("vectorInput", edited)
    /\ apEvents' = apEvents + 1
    /\ UNCHANGED <<apPc, apSteps, apView>>
    /\ UNCHANGED <<escVars, cgVars, afVars, nwVars, lsVars, ttVars, sfVars, gmVars, cpVars, b3Vars, ncVars, pvVars>>

\* mousemove on the canvas after a mousedown on the anchor of map i:
\* m.b1 = pos.x; m.b2 = pos.y; initAnchorsFromMaps(); updateFractal();
ApAnchorDrag ==
    /\ apPc = "ready" /\ apEvents < MaxAffineEvents
    /\ \E i \in 1..Len(affineMaps), mx \in MouseFractions, my \in MouseFractions :
          LET pos    == mapPixelToRange(apView, mx, my)
              edited == [affineMaps EXCEPT ![i].b1 = pos.x, ![i].b2 = pos.y]
          IN  /\ affineMaps' = edited
              /\ apSample' = Sampled("anchorDrag", edited)
    /\ apEvents' = apEvents + 1
    /\ UNCHANGED <<apPc, apSteps, apView>>
    /\ UNCHANGED <<escVars, cgVars, afVars, nwVars, lsVars, ttVars, sfVars, gmVars, cpVars, b3Vars, ncVars, pvVars>>

\* Input on probability field i with the finite value v:
\* affineMaps[i].prob = Math.max(0, v); renderProbInputs(); updateFractal();
ApProbInput ==
    /\ apPc = "ready" /\ apEvents < MaxAffineEvents
    /\ \E i \in 1..Len(affineMaps), v \in ProbEdits :
          LET edited == [affineMaps EXCEPT ![i].prob = IF v.n < 0 THEN Frac(0, 1) ELSE v]
          IN  /\ affineMaps' = edited
              /\ apSample' = Sampled("probInput", edited)
    /\ apEvents' = apEvents + 1
    /\ UNCHANGED <<apPc, apSteps, apView>>
    /\ UNCHANGED <<escVars, cgVars, afVars, nwVars, lsVars, ttVars, sfVars, gmVars, cpVars, b3Vars, ncVars, pvVars>>

\* Normalize button: normaliseProbs(); renderProbInputs(); updateFractal();
ApNormalize ==
    /\ apPc = "ready" /\ apEvents < MaxAffineEvents
    /\ ProbsInRange(normaliseProbs(affineMaps))
    /\ affineMaps' = normaliseProbs(affineMaps)
    /\ apSample' = Sampled("normalize", normaliseProbs(affineMaps))
    /\ apEvents' = apEvents + 1
    /\ UNCHANGED <<apPc, apSteps, apView>>
    /\ UNCHANGED <<escVars, cgVars, afVars, nwVars, lsVars, ttVars, sfVars, gmVars, cpVars, b3Vars, ncVars, pvVars>>

\* Generate button, and window resize: updateFractal()
ApGenerate ==
    /\ apPc = "ready" /\ apEvents < MaxAffineEvents
    /\ apSample' = Sampled("generate", affineMaps)
    /\ apEvents' = apEvents + 1
    /\ UNCHANGED <<apPc, affineMaps, apSteps, apView>>
    /\ UNCHANGED <<escVars, cgVars, afVars, nwVars, lsVars, ttVars, sfVars, gmVars, cpVars, b3Vars, ncVars, pvVars>>

\* Step button, or one frame of the animation: stepOnce()
ApStepOnce ==
    /\ apPc = "ready" /\ apEvents < MaxAffineEvents
    /\ apSteps < MaxSteps
    /\ apSteps' = apSteps + 1
    /\ apSample' = Sampled("stepOnce", affineMaps)
    /\ apEvents' = apEvents + 1
    /\ UNCHANGED <<apPc, affineMaps, apView>>
    /\ UNCHANGED <<escVars, cgVars, afVars, nwVars, lsVars, ttVars, sfVars, gmVars, cpVars, b3Vars, ncVars, pvVars>>

\* Reset button: resetView()
ApResetView ==
    /\ apPc = "ready" /\ apEvents < MaxAffineEvents
    /\ resetView("resetView", affineMaps)
    /\ apEvents' = apEvents + 1
    /\ UNCHANGED <<apPc, affineMaps>>
    /\ UNCHANGED <<escVars, cgVars, afVars, nwVars, lsVars, ttVars, sfVars, gmVars, cpVars, b3Vars, ncVars, pvVars>>

\* click on the canvas with the left button: zoomView(e.offsetX, e.offsetY,
\* -1), which ends in updateFractal()
ApClick ==
    /\ apPc = "ready" /\ apEvents < MaxAffineEvents
    /\ \E mx \in MouseFractions, my \in MouseFractions :
          apView' = zoomView(apView, mx, my, -1)
    /\ apSample' = Sampled("zoomView", affineMaps)
    /\ apEvents' = apEvents + 1
    /\ UNCHANGED <<apPc, affineMaps, apSteps>>
    /\ UNCHANGED <<escVars, cgVars, afVars, nwVars, lsVars, ttVars, sfVars, gmVars, cpVars, b3Vars, ncVars, pvVars>>

\* contextmenu on the canvas: zoomView(e.offsetX, e.offsetY, +1)
ApContextMenu ==
    /\ apPc = "ready" /\ apEvents < MaxAffineEvents
    /\ \E mx \in MouseFractions, my \in MouseFractions :
          apView' = zoomView(apView, mx, my, 1)
    /\ apSample' = Sampled("zoomView", affineMaps)
    /\ apEvents' = apEvents + 1
    /\ UNCHANGED <<apPc, affineMaps, apSteps>>
    /\ UNCHANGED <<escVars, cgVars, afVars, nwVars, lsVars, ttVars, sfVars, gmVars, cpVars, b3Vars, ncVars, pvVars>>

\* mousemove on the canvas while panning, then updateFractal()
ApPan ==
    /\ apPc = "ready" /\ apEvents < MaxAffineEvents
    /\ \E d \in PanMoves : apView' = panAffine(apView, d)
    /\ apSample' = Sampled("pan", affineMaps)
    /\ apEvents' = apEvents + 1
    /\ UNCHANGED <<apPc, affineMaps, apSteps>>
    /\ UNCHANGED <<escVars, cgVars, afVars, nwVars, lsVars, ttVars, sfVars, gmVars, cpVars, b3Vars, ncVars, pvVars>>

ApNext ==
    \/ ApSelectExample \/ ApMapCount \/ ApMatrixInput \/ ApVectorInput
    \/ ApAnchorDrag \/ ApProbInput \/ ApNormalize \/ ApGenerate \/ ApStepOnce
    \/ ApResetView \/ ApClick \/ ApContextMenu \/ ApPan

(***************************************************************************)
(* lSystem.js: generateLSystemString.  A string is the sequence of its     *)
(* symbols; rules is a function from the symbols that are keys of the      *)
(* rules object to their replacement strings.                              *)
(***************************************************************************)
MaxAxiom == 2
MaxLsIter == 2

RwSymbols == {"F", "X", "+"}

Replacements == { <<>>, <<"X">>, <<"F", "X">>, <<"F", "+", "F">> }

Axioms == UNION { [1..k -> RwSymbols] : k \in 0..MaxAxiom }

RuleSets == UNION { [keys -> Replacements] : keys \in SUBSET {"F", "X"} }

\* for (let char of result) next += rules[char] || char, from symbol j on.
\* rules[char] is undefined for a symbol that is no key, and the empty
\* string is falsy as undefined is.
RECURSIVE RewriteLoop(_, _, _, _)
RewriteLoop(result, rules, j, next) ==
    IF j > Len(result) THEN next
    ELSE RewriteLoop(result, rules, j + 1,
             next \o (IF result[j] \in DOMAIN rules /\ rules[result[j]] # <<>>
                      THEN rules[result[j]]
                      ELSE << result[j] >>))

\* only the first symbol of the string is rewritten
RewriteOnceFirstOnly(result, rules) ==
    IF result = <<>> THEN <<>>
    ELSE RewriteLoop(<< Head(result) >>, rules, 1, <<>>) \o Tail(result)

\* let next = ""; the inner loop; result = next.
RewriteOnce(result, rules) == RewriteLoop(result, rules, 1, <<>>)

LsIdle ==
    /\ lsPc = "idle" /\ lsAxiom = <<>> /\ lsRules = <<>> /\ lsIterations = 0
    /\ lsI = 0 /\ lsResult = <<>> /\ lsPrev = <<>> /\ lsReturn = <<>>

LsStart ==
    /\ lsPc = "call"
    /\ lsAxiom \in Axioms
    /\ lsRules \in RuleSets
    /\ lsIterations \in 0..MaxLsIter
    /\ lsI = 0 /\ lsResult = <<>> /\ lsPrev = <<>> /\ lsReturn = <<>>

\* let result = axiom;
LsCall ==
    /\ lsPc = "call"
    /\ lsPc' = "loop"
    /\ lsResult' = lsAxiom
    /\ lsI' = 0
    /\ UNCHANGED <<lsAxiom, lsRules, lsIterations, lsPrev, lsReturn>>
    /\ UNCHANGED <<escVars, cgVars, afVars, nwVars, apVars, ttVars, sfVars, gmVars, cpVars, b3Vars, ncVars, pvVars>>

\* One iteration of the outer loop: next = ""; the inner loop; result = next.
LsIterate ==
    /\ lsPc = "loop"
    /\ lsI < lsIterations
    /\ lsResult' = RewriteOnce(lsResult, lsRules)
    /\ lsPrev' = lsResult
    /\ lsI' = lsI + 1
    /\ UNCHANGED <<lsPc, lsAxiom, lsRules, lsIterations, lsReturn>>
    /\ UNCHANGED <<escVars, cgVars, afVars, nwVars, apVars, ttVars, sfVars, gmVars, cpVars, b3Vars, ncVars, pvVars>>

\* return result;
LsReturn ==
    /\ lsPc = "loop"
    /\ lsI >= lsIterations
    /\ lsPc' = "done"
    /\ lsReturn' = lsResult
    /\ UNCHANGED <<lsAxiom, lsRules, lsIterations, lsI, lsResult, lsPrev>>
    /\ UNCHANGED <<escVars, cgVars, afVars, nwVars, apVars, ttVars, sfVars, gmVars, cpVars, b3Vars, ncVars, pvVars>>

LsNext == LsCall \/ LsIterate \/ LsReturn

(***************************************************************************)
(* lSystem.js: turtle interpretation.  fitToCanvas, renderLSystem and the  *)
(* stepDraw of drawLSystemAnimated each walk the instruction string with   *)
(* their own loop; each loop is translated on its own.  Headings are in    *)
(* degrees and multiples of 90, where cos and sin are 0, 1 or -1; the      *)
(* doubles of the code (radians, Math.cos(Math.PI / 2) = 6.1e-17) are the  *)
(* roundings of these values, and the three loops round alike since they   *)
(* apply the same operations in the same order.                            *)
(***************************************************************************)
MaxInstr == 3

TtSymbols == {"F", "G", "+", "-", "[", "]", "X"}

\* lSystems.plant
PlantAxiom == <<"X">>

PlantRules ==
    [c \in {"X", "F"} |->
        IF c = "F" THEN <<"F", "F">>
        ELSE <<"F", "+", "[", "[", "X", "]", "-", "X", "]", "-", "F", "[", "-",
               "F", "X", "]", "+", "X">>]

\* The instruction strings: every short string, and the plant after one
\* iteration.
Instrs ==
    UNION { [1..k -> TtSymbols] : k \in 0..MaxInstr }
        \cup { RewriteOnce(PlantAxiom, PlantRules) }

AngleDegs == {90}

\* step: 1, and the 5 of every preset
StepValues == {1, 5}

\* startAngle: the 0 and -90 of the presets
StartAngles == {0, -90}

CosDeg(a) ==
    CASE a % 360 = 0 -> 1
      [] a % 360 = 90 -> 0
      [] a % 360 = 180 -> -1
      [] a % 360 = 270 -> 0

SinDeg(a) ==
    CASE a % 360 = 0 -> 0
      [] a % 360 = 90 -> 1
      [] a % 360 = 180 -> 0
      [] a % 360 = 270 -> -1

Min2(a, b) == IF a < b THEN a ELSE b

Max2(a, b) == IF a > b THEN a ELSE b

\* What a loop has reached: the turtle and the depth of its stack.
Pose(s) == [x |-> s.x, y |-> s.y, angle |-> s.angle, depth |-> Len(s.stack)]

\* fitToCanvas: the locals before the loop.
FitBegin(startAngle) ==
    [x |-> 0, y |-> 0, angle |-> startAngle, stack |-> <<>>,
     minX |-> 0, maxX |-> 0, minY |-> 0, maxY |-> 0,
     err |-> FALSE, trace |-> <<>>]

\* the case "G" is missing
FitCmdNoG(s, cmd, angleDeg, step) ==
    CASE cmd = "F" ->
            LET nx == s.x + CosDeg(s.angle) * step
                ny == s.y + SinDeg(s.angle) * step
            IN  [s EXCEPT !.x = nx, !.y = ny,
                          !.minX = Min2(s.minX, nx), !.maxX = Max2(s.maxX, nx),
                          !.minY = Min2(s.minY, ny), !.maxY = Max2(s.maxY, ny)]
      [] cmd = "+" -> [s EXCEPT !.angle = s.angle + angleDeg]
      [] cmd = "-" -> [s EXCEPT !.angle = s.angle - angleDeg]
      [] cmd = "[" ->
            [s EXCEPT !.stack = Append(s.stack, [x |-> s.x, y |-> s.y, angle |-> s.angle])]
      [] cmd = "]" ->
            IF s.stack = <<>> THEN [s EXCEPT !.err = TRUE]
            ELSE LET state == s.stack[Len(s.stack)]
                 IN  [s EXCEPT !.stack = SubSeq(s.stack, 1, Len(s.stack) - 1),
                               !.x = state.x, !.y = state.y, !.angle = state.angle]
      [] OTHER -> s

\* fitToCanvas: the switch on one cmd.  stack.pop() on the empty stack gives
\* undefined, and reading state.x throws a TypeError.
FitCmd(s, cmd, angleDeg, step) ==
    CASE cmd \in {"F", "G"} ->
            LET nx == s.x + CosDeg(s.angle) * step
                ny == s.y + SinDeg(s.angle) * step
            IN  [s EXCEPT !.x = nx, !.y = ny,
                          !.minX = Min2(s.minX, nx), !.maxX = Max2(s.maxX, nx),
                          !.minY = Min2(s.minY, ny), !.maxY = Max2(s.maxY, ny)]
      [] cmd = "+" -> [s EXCEPT !.angle = s.angle + angleDeg]
      [] cmd = "-" -> [s EXCEPT !.angle = s.angle - angleDeg]
      [] cmd = "[" ->
            [s EXCEPT !.stack = Append(s.stack, [x |-> s.x, y |-> s.y, angle |-> s.angle])]
      [] cmd = "]" ->
            IF s.stack = <<>> THEN [s EXCEPT !.err = TRUE]
            ELSE LET state == s.stack[Len(s.stack)]
                 IN  [s EXCEPT !.stack = SubSeq(s.stack, 1, Len(s.stack) - 1),
                               !.x = state.x, !.y = state.y, !.angle = state.angle]
      [] OTHER -> s

\* fitToCanvas: for (let cmd of instr), from symbol j on.  trace records the
\* pose after every symbol.
RECURSIVE FitLoop(_, _, _, _, _)
FitLoop(instr, j, s, angleDeg, step) ==
    IF j > Len(instr) \/ s.err THEN s
    ELSE LET t == FitCmd(s, instr[j], angleDeg, step)
         IN  FitLoop(instr, j + 1,
                     IF t.err THEN t ELSE [t EXCEPT !.trace = Append(s.trace, Pose(t))],
                     angleDeg, step)

\* fitToCanvas(instr, angleDeg, step): the locals when the loop has ended,
\* from which the returned scale and offsets are computed.
fitToCanvas(instr, angleDeg, step, startAngle) ==
    FitLoop(instr, 1, FitBegin(startAngle), angleDeg, step)

\* renderLSystem / drawLSystemAnimated: the locals before the loop, after
\* ctx.beginPath(); ctx.moveTo(0, 0).
DrawBegin(startAngle) ==
    [x |-> 0, y |-> 0, angle |-> startAngle, stack |-> <<>>,
     path |-> << [op |-> "moveTo", x |-> 0, y |-> 0] >>,
     err |-> FALSE, trace |-> <<>>]

\* "]" restores the position and forgets the heading
RenderCmdKeepsHeading(s, cmd, angleDeg, step) ==
    CASE cmd \in {"F", "G"} ->
            LET nx == s.x + CosDeg(s.angle) * step
                ny == s.y + SinDeg(s.angle) * step
            IN  [s EXCEPT !.x = nx, !.y = ny,
                          !.path = Append(s.path, [op |-> "lineTo", x |-> nx, y |-> ny])]
      [] cmd = "+" -> [s EXCEPT !.angle = s.angle + angleDeg]
      [] cmd = "-" -> [s EXCEPT !.angle = s.angle - angleDeg]
      [] cmd = "[" ->
            [s EXCEPT !.stack = Append(s.stack, [x |-> s.x, y |-> s.y, angle |-> s.angle])]
      [] cmd = "]" ->
            IF s.stack = <<>> THEN [s EXCEPT !.err = TRUE]
            ELSE LET state == s.stack[Len(s.stack)]
                 IN  [s EXCEPT !.stack = SubSeq(s.stack, 1, Len(s.stack) - 1),
                               !.x = state.x, !.y = state.y,
                               !.path = Append(s.path, [op |-> "moveTo", x |-> state.x, y |-> state.y])]
      [] OTHER -> s

\* renderLSystem: the switch on one cmd.
RenderCmd(s, cmd, angleDeg, step) ==
    CASE cmd \in {"F", "G"} ->
            LET nx == s.x + CosDeg(s.angle) * step
                ny == s.y + SinDeg(s.angle) * step
            IN  [s EXCEPT !.x = nx, !.y = ny,
                          !.path = Append(s.path, [op |-> "lineTo", x |-> nx, y |-> ny])]
      [] cmd = "+" -> [s EXCEPT !.angle = s.angle + angleDeg]
      [] cmd = "-" -> [s EXCEPT !.angle = s.angle - angleDeg]
      [] cmd = "[" ->
            [s EXCEPT !.stack = Append(s.stack, [x |-> s.x, y |-> s.y, angle |-> s.angle])]
      [] cmd = "]" ->
            IF s.stack = <<>> THEN [s EXCEPT !.err = TRUE]
            ELSE LET state == s.stack[Len(s.stack)]
                 IN  [s EXCEPT !.stack = SubSeq(s.stack, 1, Len(s.stack) - 1),
                               !.x = state.x, !.y = state.y, !.angle = state.angle,
                               !.path = Append(s.path, [op |-> "moveTo", x |-> state.x, y |-> state.y])]
      [] OTHER -> s

\* renderLSystem: for (let cmd of instructions), from symbol j on.
RECURSIVE RenderLoop(_, _, _, _, _)
RenderLoop(instr, j, s, angleDeg, step) ==
    IF j > Len(instr) \/ s.err THEN s
    ELSE LET t == RenderCmd(s, instr[j], angleDeg, step)
         IN  RenderLoop(instr, j + 1,
                        IF t.err THEN t ELSE [t EXCEPT !.trace = Append(s.trace, Pose(t))],
                        angleDeg, step)

\* stepDraw of drawLSystemAnimated: the switch on one cmd.
StepDrawCmd(s, cmd, angleDeg, step) ==
    CASE cmd \in {"F", "G"} ->
            LET nx == s.x + CosDeg(s.angle) * step
                ny == s.y + SinDeg(s.angle) * step
            IN  [s EXCEPT !.x = nx, !.y = ny,
                          !.path = Append(s.path, [op |-> "lineTo", x |-> nx, y |-> ny])]
      [] cmd = "+" -> [s EXCEPT !.angle = s.angle + angleDeg]
      [] cmd = "-" -> [s EXCEPT !.angle = s.angle - angleDeg]
      [] cmd = "[" ->
            [s EXCEPT !.stack = Append(s.stack, [x |-> s.x, y |-> s.y, angle |-> s.angle])]
      [] cmd = "]" ->
            IF s.stack = <<>> THEN [s EXCEPT !.err = TRUE]
            ELSE LET state == s.stack[Len(s.stack)]
                 IN  [s EXCEPT !.stack = SubSeq(s.stack, 1, Len(s.stack) - 1),
                               !.x = state.x, !.y = state.y, !.angle = state.angle,
                               !.path = Append(s.path, [op |-> "moveTo", x |-> state.x, y |-> state.y])]
      [] OTHER -> s

NoPass == [x |-> 0, y |-> 0, angle |-> 0, stack |-> <<>>, path |-> <<>>,
           err |-> FALSE, trace |-> <<>>]

NoFit == [x |-> 0, y |-> 0, angle |-> 0, stack |-> <<>>,
          minX |-> 0, maxX |-> 0, minY |-> 0, maxY |-> 0,
          err |-> FALSE, trace |-> <<>>]

TtIdle ==
    /\ ttPc = "idle" /\ ttInstr = <<>> /\ ttAngleDeg = 0 /\ ttStep = 0
    /\ ttStartAngle = 0 /\ ttFit = NoFit /\ ttRender = NoPass
    /\ ttRendered = "no" /\ ttAnim = NoPass /\ ttStepIndex = 0
    /\ ttSystem = FALSE

\* instructions and currentSystem are set; nothing is drawn yet.
TtStart ==
    /\ ttPc = "set"
    /\ ttInstr \in Instrs
    /\ ttAngleDeg \in AngleDegs
    /\ ttStep \in StepValues
    /\ ttStartAngle \in StartAngles
    /\ ttFit = NoFit /\ ttRender = NoPass /\ ttRendered = "no"
    /\ ttAnim = NoPass /\ ttStepIndex = 0
    /\ ttSystem = TRUE

\* handleGenerate with the same example and iterations: currentSystem is
\* set and the instructions are generated again, then
\* drawLSystemAnimated(instructions, currentSystem.angle, currentSystem.step,
\* ..., currentSystem.startAngle) up to its requestAnimationFrame.  An
\* exception of fitToCanvas leaves the function before any frame is asked for.
TtDrawAnimated ==
    /\ ttPc \in {"set", "animating", "drawn", "failed", "cleared"}
    /\ ttSystem' = TRUE
    /\ LET fit == fitToCanvas(ttInstr, ttAngleDeg, ttStep, ttStartAngle)
       IN  /\ ttFit' = fit
           /\ IF fit.err
              THEN /\ ttPc' = "failed"
                   /\ UNCHANGED <<ttAnim, ttStepIndex>>
              ELSE /\ ttPc' = "animating"
                   /\ ttAnim' = DrawBegin(ttStartAngle)
                   /\ ttStepIndex' = 0
    /\ UNCHANGED <<ttInstr, ttAngleDeg, ttStep, ttStartAngle, ttRender, ttRendered>>
    /\ UNCHANGED <<escVars, cgVars, afVars, nwVars, apVars, lsVars, sfVars, gmVars, cpVars, b3Vars, ncVars, pvVars>>

\* One frame of the animation: stepDraw().  Past the last symbol it strokes
\* and asks for no further frame.
TtStepDraw ==
    /\ ttPc = "animating"
    /\ IF ttStepIndex >= Len(ttInstr)
       THEN /\ ttPc' = "drawn"
            /\ UNCHANGED <<ttAnim, ttStepIndex>>
       ELSE LET t == StepDrawCmd(ttAnim, ttInstr[ttStepIndex + 1], ttAngleDeg, ttStep)
            IN  IF t.err
                THEN /\ ttPc' = "failed"
                     /\ ttAnim' = t
                     /\ UNCHANGED ttStepIndex
                ELSE /\ ttAnim' = [t EXCEPT !.trace = Append(ttAnim.trace, Pose(t))]
                     /\ ttStepIndex' = ttStepIndex + 1
                     /\ UNCHANGED ttPc
    /\ UNCHANGED <<ttInstr, ttAngleDeg, ttStep, ttStartAngle, ttFit, ttRender, ttRendered,
                   ttSystem>>
    /\ UNCHANGED <<escVars, cgVars, afVars, nwVars, apVars, lsVars, sfVars, gmVars, cpVars, b3Vars, ncVars, pvVars>>

\* renderLSystem(), called by the click, pan, grid and line-width handlers;
\* it returns at once when instructions is empty or currentSystem is null.
TtRenderLSystem ==
    /\ ttPc \in {"set", "animating", "drawn", "failed", "cleared"}
    /\ ttInstr # <<>>
    /\ ttSystem
    /\ LET fit == fitToCanvas(ttInstr, ttAngleDeg, ttStep, ttStartAngle)
       IN  /\ ttFit' = fit
           /\ IF fit.err
              THEN /\ ttRendered' = "failed"
                   /\ UNCHANGED ttRender
              ELSE /\ ttRender' = RenderLoop(ttInstr, 1, DrawBegin(ttStartAngle),
                                             ttAngleDeg, ttStep)
                   /\ ttRendered' = "yes"
    /\ UNCHANGED <<ttPc, ttInstr, ttAngleDeg, ttStep, ttStartAngle, ttAnim, ttStepIndex,
                   ttSystem>>
    /\ UNCHANGED <<escVars, cgVars, afVars, nwVars, apVars, lsVars, sfVars, gmVars, cpVars, b3Vars, ncVars, pvVars>>

\* handleClear: the pending frame is cancelled, the canvas cleared and
\* stepIndex set to 0; nothing is drawn again.
TtClear ==
    /\ ttPc \in {"set", "animating", "drawn", "failed", "cleared"}
    /\ ttPc' = "cleared"
    /\ ttStepIndex' = 0
    /\ UNCHANGED <<ttInstr, ttAngleDeg, ttStep, ttStartAngle, ttFit, ttRender, ttRendered,
                   ttAnim, ttSystem>>
    /\ UNCHANGED <<escVars, cgVars, afVars, nwVars, apVars, lsVars, sfVars, gmVars, cpVars, b3Vars, ncVars, pvVars>>

\* handleReset: as handleClear, and currentSystem = null; instructions stays.
TtReset ==
    /\ ttPc \in {"set", "animating", "drawn", "failed", "cleared"}
    /\ ttPc' = "cleared"
    /\ ttStepIndex' = 0
    /\ ttSystem' = FALSE
    /\ UNCHANGED <<ttInstr, ttAngleDeg, ttStep, ttStartAngle, ttFit, ttRender, ttRendered,
                   ttAnim>>
    /\ UNCHANGED <<escVars, cgVars, afVars, nwVars, apVars, lsVars, sfVars, gmVars, cpVars, b3Vars, ncVars, pvVars>>

TtNext == TtDrawAnimated \/ TtStepDraw \/ TtRenderLSystem \/ TtClear \/ TtReset

(***************************************************************************)
(* spaceFill.js: generateHilbert, generateHilbertRecursive, generateZOrder. *)
(* A point is [x, y, den], standing for the canvas point                    *)
(* ((x / den) * width, (y / den) * height); den = 0 is the NaN that 0 / 0   *)
(* gives at depth 0.  The doubles of the code are the roundings of these    *)
(* fractions.  All shifts stay far below 32 bits at the depths followed.    *)
(***************************************************************************)
MaxDepth == 2

Depths == 0..MaxDepth

\* view: the default one, and one zoomed in and panned right by a canvas width.
Views ==
    { [zoomLevel |-> 1, offsetX |-> 0, offsetY |-> 0],
      [zoomLevel |-> 2, offsetX |-> 1, offsetY |-> 0] }

\* transformPoint([x, y])
transformPoint(p, v) ==
    IF p.den = 0 THEN p
    ELSE IF "hx" \in DOMAIN p
    THEN [x |-> p.x * v.zoomLevel + v.offsetX * p.den,
          y |-> p.y * v.zoomLevel + v.offsetY * p.den,
          den |-> p.den,
          hx |-> p.hx * v.zoomLevel, hy |-> p.hy * v.zoomLevel]
    ELSE [x |-> p.x * v.zoomLevel + v.offsetX * p.den,
          y |-> p.y * v.zoomLevel + v.offsetY * p.den,
          den |-> p.den]

\* the reflection of the quadrant is left out
rotNoReflect(n, x, y, rx, ry) ==
    IF ry = 0 THEN <<y, x>> ELSE <<x, y>>

\* rot(n, x, y, rx, ry) of generateHilbert
rot(n, x, y, rx, ry) ==
    IF ry = 0
    THEN IF rx = 1 THEN <<n - 1 - y, n - 1 - x>> ELSE <<y, x>>
    ELSE <<x, y>>

\* x += rx, y += ry in place of x += s * rx, y += s * ry
HilbertLevelNoScale(x, y, t, s) ==
    LET rx == (t \div 2) % 2
        ry == (t + rx) % 2
        r  == rot(s, x, y, rx, ry)
    IN  [x |-> r[1] + rx, y |-> r[2] + ry, t |-> t \div 4]

\* One iteration of the loop over s: rx = 1 & (t >> 1), ry = 1 & (t ^ rx),
\* the rotation, the two additions and t = Math.floor(t / 4).
HilbertLevel(x, y, t, s) ==
    LET rx == (t \div 2) % 2
        ry == (t + rx) % 2
        r  == rot(s, x, y, rx, ry)
    IN  [x |-> r[1] + s * rx, y |-> r[2] + s * ry, t |-> t \div 4]

\* for (let s = 1; s < N; s *= 2), from s on
RECURSIVE HilbertLevels(_, _, _, _, _)
HilbertLevels(x, y, t, s, N) ==
    IF s >= N THEN [x |-> x, y |-> y]
    ELSE LET l == HilbertLevel(x, y, t, s)
         IN  HilbertLevels(l.x, l.y, l.t, 2 * s, N)

\* The (x, y) generateHilbert decodes from d.
HilbertCell(d, N) == HilbertLevels(0, 0, d, 1, N)

\* hilb(x0, y0, xi, xj, yi, yj, n), in units of width / den and height / den;
\* the result is what the call appends to pts.
RECURSIVE hilb(_, _, _, _, _, _, _, _, _)
hilb(x0, y0, xi, xj, yi, yj, n, den, v) ==
    IF n <= 0
    THEN << transformPoint([x |-> x0 + (xi + yi) \div 2,
                            y |-> y0 + (xj + yj) \div 2,
                            den |-> den], v) >>
    ELSE    hilb(x0, y0,
                 yi \div 2, yj \div 2, xi \div 2, xj \div 2, n - 1, den, v)
         \o hilb(x0 + xi \div 2, y0 + xj \div 2,
                 xi \div 2, xj \div 2, yi \div 2, yj \div 2, n - 1, den, v)
         \o hilb(x0 + xi \div 2 + yi \div 2, y0 + xj \div 2 + yj \div 2,
                 xi \div 2, xj \div 2, yi \div 2, yj \div 2, n - 1, den, v)
         \o hilb(x0 + xi \div 2 + yi, y0 + xj \div 2 + yj,
                 -(yi \div 2), -(yj \div 2), -(xi \div 2), -(xj \div 2), n - 1, den, v)

\* generateHilbertRecursive(n): hilb(0, 0, width, 0, 0, height, n).  With the
\* unit width / 2^(n+1) every halving is exact.
generateHilbertRecursive(n, v) ==
    hilb(0, 0, 2 ^ (n + 1), 0, 0, 2 ^ (n + 1), n, 2 ^ (n + 1), v)

\* x from the even bits and y from the odd bits
ZOrderCellSwapped(i, n) ==
    LET XBit(bit) == ((i \div (2 ^ (2 * bit))) % 2) * (2 ^ bit)
        YBit(bit) == ((i \div (2 ^ (2 * bit + 1))) % 2) * (2 ^ bit)
        SumX[b \in 0..n] == IF b = n THEN 0 ELSE XBit(b) + SumX[b + 1]
        SumY[b \in 0..n] == IF b = n THEN 0 ELSE YBit(b) + SumY[b + 1]
    IN  [x |-> SumX[0], y |-> SumY[0]]

\* The (x, y) generateZOrder collects from i:
\* x |= ((i >> (2 * bit + 1)) & 1) << bit; y |= ((i >> (2 * bit)) & 1) << bit.
ZOrderCell(i, n) ==
    LET XBit(bit) == ((i \div (2 ^ (2 * bit + 1))) % 2) * (2 ^ bit)
        YBit(bit) == ((i \div (2 ^ (2 * bit))) % 2) * (2 ^ bit)
        SumX[b \in 0..n] == IF b = n THEN 0 ELSE XBit(b) + SumX[b + 1]
        SumY[b \in 0..n] == IF b = n THEN 0 ELSE YBit(b) + SumY[b + 1]
    IN  [x |-> SumX[0], y |-> SumY[0]]

\* transformPoint([(x / (N - 1)) * width, (y / (N - 1)) * height])
Normalised(c, N, v) == transformPoint([x |-> c.x, y |-> c.y, den |-> N - 1], v)

SfIdle ==
    /\ sfN = -1 /\ sfView = [zoomLevel |-> 1, offsetX |-> 0, offsetY |-> 0]
    /\ hbPc = "idle" /\ hbD = 0 /\ hbCells = <<>> /\ hbPoints = <<>>
    /\ hrPc = "idle" /\ hrPts = <<>>
    /\ zoPc = "idle" /\ zoI = 0 /\ zoCells = <<>> /\ zoPoints = <<>>

\* The three generators are about to be called with the same n under one view.
SfStart ==
    /\ sfN \in Depths /\ sfView \in Views
    /\ hbPc = "loop" /\ hbD = 0 /\ hbCells = <<>> /\ hbPoints = <<>>
    /\ hrPc = "call" /\ hrPts = <<>>
    /\ zoPc = "loop" /\ zoI = 0 /\ zoCells = <<>> /\ zoPoints = <<>>

\* generateHilbert: one iteration of the loop over d.
HbStep ==
    /\ hbPc = "loop"
    /\ hbD < (2 ^ sfN) * (2 ^ sfN)
    /\ LET c == HilbertCell(hbD, 2 ^ sfN)
       IN  /\ hbCells' = Append(hbCells, c)
           /\ hbPoints' = Append(hbPoints, Normalised(c, 2 ^ sfN, sfView))
    /\ hbD' = hbD + 1
    /\ UNCHANGED <<sfN, sfView, hbPc, hrPc, hrPts, zoPc, zoI, zoCells, zoPoints>>
    /\ UNCHANGED <<escVars, cgVars, afVars, nwVars, apVars, lsVars, ttVars, gmVars, cpVars, b3Vars, ncVars, pvVars>>

\* generateHilbert: return points
HbReturn ==
    /\ hbPc = "loop"
    /\ hbD >= (2 ^ sfN) * (2 ^ sfN)
    /\ hbPc' = "done"
    /\ UNCHANGED <<sfN, sfView, hbD, hbCells, hbPoints, hrPc, hrPts, zoPc, zoI,
                   zoCells, zoPoints>>
    /\ UNCHANGED <<escVars, cgVars, afVars, nwVars, apVars, lsVars, ttVars, gmVars, cpVars, b3Vars, ncVars, pvVars>>

\* generateHilbertRecursive(n), the whole call
HrCall ==
    /\ hrPc = "call"
    /\ hrPc' = "done"
    /\ hrPts' = generateHilbertRecursive(sfN, sfView)
    /\ UNCHANGED <<sfN, sfView, hbPc, hbD, hbCells, hbPoints, zoPc, zoI, zoCells,
                   zoPoints>>
    /\ UNCHANGED <<escVars, cgVars, afVars, nwVars, apVars, lsVars, ttVars, gmVars, cpVars, b3Vars, ncVars, pvVars>>

\* generateZOrder: one iteration of the loop over i.
ZoStep ==
    /\ zoPc = "loop"
    /\ zoI < (2 ^ sfN) * (2 ^ sfN)
    /\ LET c == ZOrderCell(zoI, sfN)
       IN  /\ zoCells' = Append(zoCells, c)
           /\ zoPoints' = Append(zoPoints, Normalised(c, 2 ^ sfN, sfView))
    /\ zoI' = zoI + 1
    /\ UNCHANGED <<sfN, sfView, zoPc, hbPc, hbD, hbCells, hbPoints, hrPc, hrPts>>
    /\ UNCHANGED <<escVars, cgVars, afVars, nwVars, apVars, lsVars, ttVars, gmVars, cpVars, b3Vars, ncVars, pvVars>>

\* generateZOrder: return points
ZoReturn ==
    /\ zoPc = "loop"
    /\ zoI >= (2 ^ sfN) * (2 ^ sfN)
    /\ zoPc' = "done"
    /\ UNCHANGED <<sfN, sfView, zoI, zoCells, zoPoints, hbPc, hbD, hbCells,
                   hbPoints, hrPc, hrPts>>
    /\ UNCHANGED <<escVars, cgVars, afVars, nwVars, apVars, lsVars, ttVars, gmVars, cpVars, b3Vars, ncVars, pvVars>>

SfNext == HbStep \/ HbReturn \/ HrCall \/ ZoStep \/ ZoReturn

(***************************************************************************)
(* spaceFill.js: generateGray, generateMoore, generatePeano.  Points are   *)
(* [x, y, den] as above.  generatePeano is followed in units of 1 / 3^depth *)
(* of the unit square, where every size / 3 is exact; the doubles of the   *)
(* code are the roundings of these thirds.                                 *)
(***************************************************************************)
\* a ^ b on non-negative integers
RECURSIVE BitXor(_, _)
BitXor(a, b) ==
    IF a = 0 /\ b = 0 THEN 0
    ELSE (((a % 2) + (b % 2)) % 2) + 2 * BitXor(a \div 2, b \div 2)

\* the plain index in place of its Gray code
GrayCellNoCode(i, n) ==
    LET g == i
        XBit(bit) == ((g \div (2 ^ (2 * bit + 1))) % 2) * (2 ^ bit)
        YBit(bit) == ((g \div (2 ^ (2 * bit))) % 2) * (2 ^ bit)
        SumX[b \in 0..n] == IF b = n THEN 0 ELSE XBit(b) + SumX[b + 1]
        SumY[b \in 0..n] == IF b = n THEN 0 ELSE YBit(b) + SumY[b + 1]
    IN  [x |-> SumX[0], y |-> SumY[0]]

\* The (x, y) generateGray collects from i: g = i ^ (i >>> 1), then
\* x |= ((g >> (2 * bit + 1)) & 1) << bit; y |= ((g >> (2 * bit)) & 1) << bit.
GrayCell(i, n) ==
    LET g == BitXor(i, i \div 2)
        XBit(bit) == ((g \div (2 ^ (2 * bit + 1))) % 2) * (2 ^ bit)
        YBit(bit) == ((g \div (2 ^ (2 * bit))) % 2) * (2 ^ bit)
        SumX[b \in 0..n] == IF b = n THEN 0 ELSE XBit(b) + SumX[b + 1]
        SumY[b \in 0..n] == IF b = n THEN 0 ELSE YBit(b) + SumY[b + 1]
    IN  [x |-> SumX[0], y |-> SumY[0]]

\* The (x, y) generateMoore computes for i, n >= 1.  hilbertIndexToXY is the
\* decoder of generateHilbert, written out a second time in generateMoore.
MooreCell(i, n) ==
    LET segmentLength == 2 ^ (n - 1)
        quadrant == i \div (segmentLength * segmentLength)
        index    == i % (segmentLength * segmentLength)
        h        == HilbertCell(index, segmentLength)
    IN  CASE quadrant = 0 -> [x |-> h.y, y |-> h.x]
          [] quadrant = 1 -> [x |-> h.x + segmentLength, y |-> h.y]
          [] quadrant = 2 -> [x |-> h.x + segmentLength, y |-> h.y + segmentLength]
          [] quadrant = 3 -> [x |-> 2 * segmentLength - 1 - h.y,
                              y |-> 2 * segmentLength - 1 - h.x]

\* generatePeano: order
PeanoOrder ==
    << <<0, 0>>, <<0, 1>>, <<0, 2>>, <<1, 2>>, <<1, 1>>, <<1, 0>>,
       <<2, 0>>, <<2, 1>>, <<2, 2>> >>

\* peano(x, y, size, level): what the call appends to points, from entry k
\* of order on.
RECURSIVE peano(_, _, _, _, _)
peano(x, y, size, level, k) ==
    IF level = 0 THEN << [x |-> x, y |-> y] >>
    ELSE IF k > Len(PeanoOrder) THEN <<>>
    ELSE LET step == size \div 3
         IN  peano(x + PeanoOrder[k][1] * step, y + PeanoOrder[k][2] * step,
                   step, level - 1, 1)
                \o peano(x, y, size, level, k + 1)

\* The points of generatePeano(depth) before the final map, in units of
\* 1 / 3^depth.
PeanoCells(depth) == peano(0, 0, 3 ^ depth, depth, 1)

\* points.map(([x, y]) => transformPoint([x * width, y * height]))
generatePeano(depth, v) ==
    LET points == PeanoCells(depth)
    IN  [k \in 1..Len(points) |->
            transformPoint([x |-> points[k].x, y |-> points[k].y,
                            den |-> 3 ^ depth], v)]

GmIdle ==
    /\ gmN = -1 /\ gmView = [zoomLevel |-> 1, offsetX |-> 0, offsetY |-> 0]
    /\ grPc = "idle" /\ grI = 0 /\ grCells = <<>> /\ grPts = <<>>
    /\ moPc = "idle" /\ moI = 0 /\ moCells = <<>> /\ moPts = <<>>
    /\ pePc = "idle" /\ pePoints = <<>>

\* The three generators are about to be called with the same n under one view.
GmStart ==
    /\ gmN \in Depths /\ gmView \in Views
    /\ grPc = "loop" /\ grI = 0 /\ grCells = <<>> /\ grPts = <<>>
    /\ moPc = "call" /\ moI = 0 /\ moCells = <<>> /\ moPts = <<>>
    /\ pePc = "call" /\ pePoints = <<>>

\* generateGray: one iteration of the loop over i, or return pts.
GrStep ==
    /\ grPc = "loop"
    /\ IF grI < (2 ^ gmN) * (2 ^ gmN)
       THEN /\ grCells' = Append(grCells, GrayCell(grI, gmN))
            /\ grPts' = Append(grPts, Normalised(GrayCell(grI, gmN), 2 ^ gmN, gmView))
            /\ grI' = grI + 1
            /\ UNCHANGED grPc
       ELSE /\ grPc' = "done"
            /\ UNCHANGED <<grI, grCells, grPts>>
    /\ UNCHANGED <<gmN, gmView, moPc, moI, moCells, moPts, pePc, pePoints>>
    /\ UNCHANGED <<escVars, cgVars, afVars, nwVars, apVars, lsVars, ttVars, sfVars, cpVars, b3Vars, ncVars, pvVars>>

\* generateMoore: if (n < 1) return pts; then one iteration of the loop over
\* i, or return pts.
MoStep ==
    /\ moPc \in {"call", "loop"}
    /\ IF gmN < 1
       THEN /\ moPc' = "done"
            /\ UNCHANGED <<moI, moCells, moPts>>
       ELSE IF moI < 4 * (2 ^ (gmN - 1)) * (2 ^ (gmN - 1))
       THEN /\ moCells' = Append(moCells, MooreCell(moI, gmN))
            /\ moPts' = Append(moPts, Normalised(MooreCell(moI, gmN), 2 ^ gmN, gmView))
            /\ moI' = moI + 1
            /\ moPc' = "loop"
       ELSE /\ moPc' = "done"
            /\ UNCHANGED <<moI, moCells, moPts>>
    /\ UNCHANGED <<gmN, gmView, grPc, grI, grCells, grPts, pePc, pePoints>>
    /\ UNCHANGED <<escVars, cgVars, afVars, nwVars, apVars, lsVars, ttVars, sfVars, cpVars, b3Vars, ncVars, pvVars>>

\* generatePeano(depth), the whole call
PeCall ==
    /\ pePc = "call"
    /\ pePc' = "done"
    /\ pePoints' = generatePeano(gmN, gmView)
    /\ UNCHANGED <<gmN, gmView, grPc, grI, grCells, grPts, moPc, moI, moCells, moPts>>
    /\ UNCHANGED <<escVars, cgVars, afVars, nwVars, apVars, lsVars, ttVars, sfVars, cpVars, b3Vars, ncVars, pvVars>>

GmNext == GrStep \/ MoStep \/ PeCall

(***************************************************************************)
(* spaceFill.js: the page.  The view holds doubles; here zoomLevel,         *)
(* offsetX and offsetY are numerators over the common denominator den,      *)
(* offsetX in canvas widths and offsetY in canvas heights, reduced to       *)
(* lowest terms.  1 / 1.1 is followed as 10 / 11, of which the double is    *)
(* the rounding.  Timers and frame requests are the callbacks the browser   *)
(* still holds for the page.                                                *)
(***************************************************************************)
MaxEvents == 3

\* The values of depthInput followed here.
PageDepths == {0, 1}

\* The values of curveTypeSelect followed here; "dragon" is a value the
\* switch of generateCurvePoints does not know.
PageCurves == {"peano", "hilbert", "sierpinski", "gosper", "dragon"}

\* e.offsetX and e.offsetY of a wheel event, in canvas widths and heights
MousePoints == { <<0, 0>>, <<1, 1>> }

\* dx and dy of a mousemove while dragging, in canvas widths and heights
DragMoves == { <<1, 0>>, <<0, -1>> }

\* scaleFactor and 1 / scaleFactor as <<numerator, denominator>>
WheelZooms == { <<11, 10>>, <<10, 11>> }

DefaultPageView == [zoomLevel |-> 1, offsetX |-> 0, offsetY |-> 0, den |-> 1]

\* the view with its four numbers in lowest terms
ReducedView(z, ox, oy, d) ==
    LET g == Gcd(Gcd(Abs(z), Abs(ox)), Gcd(Abs(oy), d))
    IN  [zoomLevel |-> z \div g, offsetX |-> ox \div g, offsetY |-> oy \div g,
         den |-> d \div g]

\* wheel handler: wx = (mouseX - offsetX) / zoomLevel, zoomLevel *= zoom,
\* offsetX = mouseX - wx * zoomLevel, and the same for y; m is the mouse
\* point and f the zoom.
WheelView(v, m, f) ==
    ReducedView(v.zoomLevel * f[1],
                m[1] * v.den * f[2] - (m[1] * v.den - v.offsetX) * f[1],
                m[2] * v.den * f[2] - (m[2] * v.den - v.offsetY) * f[1],
                v.den * f[2])

\* mousemove while dragging: view.offsetX += dx, view.offsetY += dy
DragView(v, d) ==
    [v EXCEPT !.offsetX = @ + d[1] * v.den, !.offsetY = @ + d[2] * v.den]

\* generateHilbert(n): the array the loop over d returns
generateHilbert(n, v) ==
    [k \in 1..((2 ^ n) * (2 ^ n)) |->
        Normalised(HilbertCell(k - 1, 2 ^ n), 2 ^ n, v)]

\* generateZOrder(n): the array the loop over i returns
generateZOrder(n, v) ==
    [k \in 1..((2 ^ n) * (2 ^ n)) |-> Normalised(ZOrderCell(k - 1, n), 2 ^ n, v)]

\* generateGray(n): the array the loop over i returns
generateGray(n, v) ==
    [k \in 1..((2 ^ n) * (2 ^ n)) |-> Normalised(GrayCell(k - 1, n), 2 ^ n, v)]

\* generateMoore(n): the array the loop over i returns, [] when n < 1
generateMoore(n, v) ==
    IF n < 1 THEN <<>>
    ELSE [k \in 1..((2 ^ n) * (2 ^ n)) |->
            Normalised(MooreCell(k - 1, n), 2 ^ n, v)]

\* sierp(x, y, dx, dy, n, orient): what the call appends to pts.  The
\* lengths are in units of 1 / den of the canvas width (x, dx) and height
\* (y, dy); every halving is exact.
RECURSIVE sierp(_, _, _, _, _, _, _, _)
sierp(x, y, dx, dy, n, orient, den, v) ==
    IF n = 0 THEN << transformPoint([x |-> x, y |-> y, den |-> den], v) >>
    ELSE    sierp(x, y, dx \div 2, dy \div 2, n - 1, 1 - orient, den, v)
         \o (IF orient = 0
             THEN sierp(x + dx \div 2, y, dx \div 2, dy \div 2, n - 1, orient, den, v)
             ELSE sierp(x, y + dy \div 2, dx \div 2, dy \div 2, n - 1, orient, den, v))
         \o sierp(x + dx \div 2, y + dy \div 2, dx \div 2, dy \div 2, n - 1,
                  1 - orient, den, v)

\* generateSierpinski(n): sierp(0, 0, width, height, n, 0)
generateSierpinski(n, v) == sierp(0, 0, 2 ^ n, 2 ^ n, n, 0, 2 ^ n, v)

\* generateGosper: seq, the turns in units of angle60
GosperSeq == <<0, -1, -1, 0, 1, 1, 0>>

\* step * Math.cos(angle) in units of step / 2 and step * Math.sin(angle) in
\* units of step * sqrt(3) / 2, for angle = a * angle60; the doubles of the
\* code are the roundings of these.
HexStep(a) ==
    CASE a % 6 = 0 -> <<2, 0>>
      [] a % 6 = 1 -> <<1, 1>>
      [] a % 6 = 2 -> <<-1, 1>>
      [] a % 6 = 3 -> <<-2, 0>>
      [] a % 6 = 4 -> <<-1, -1>>
      [] a % 6 = 5 -> <<1, -1>>

\* gosper(x, y, angle, n): pts is what the call appends, [x, y, a] what it
\* returns.  A position is [x, y, den, hx, hy]: (x * width + hx * step / 2)
\* / den across and (y * height + hy * step * sqrt(3) / 2) / den down, with
\* step = Math.min(width, height) / Math.pow(Math.sqrt(7), n) of the outer
\* call.  gosperSeq is the loop over seq from entry k on.
RECURSIVE gosper(_, _, _, _)
RECURSIVE gosperSeq(_, _, _, _, _)
gosper(p, a, n, v) ==
    IF n = 0
    THEN [pts |-> << transformPoint(p, v) >>,
          p |-> [p EXCEPT !.hx = @ + HexStep(a)[1] * p.den,
                          !.hy = @ + HexStep(a)[2] * p.den],
          a |-> a]
    ELSE gosperSeq(p, a, n, v, 1)

gosperSeq(p, a, n, v, k) ==
    IF k > Len(GosperSeq) THEN [pts |-> <<>>, p |-> p, a |-> a]
    ELSE LET r    == gosper(p, a + GosperSeq[k], n - 1, v)
             rest == gosperSeq(r.p, r.a, n, v, k + 1)
         IN  [pts |-> r.pts \o rest.pts, p |-> rest.p, a |-> rest.a]

\* generateGosper(n): gosper(width / 4, height / 2, 0, n)
generateGosper(n, v) ==
    gosper([x |-> 1, y |-> 2, den |-> 4, hx |-> 0, hy |-> 0], 0, n, v).pts

\* generateCurvePoints(curve, depth) under the view v.  The generators are
\* handed the numerators of the view; transformPoint is linear in the view,
\* so the points under the view itself are those over v.den.
generateCurvePoints(curve, depth, v) ==
    LET pts == CASE curve = "peano" -> generatePeano(depth, v)
                 [] curve = "hilbert" -> generateHilbert(depth, v)
                 [] curve = "hilbertRecursive" -> generateHilbertRecursive(depth, v)
                 [] curve = "zorder" -> generateZOrder(depth, v)
                 [] curve = "lebesgue" -> generateZOrder(depth, v)
                 [] curve = "gray" -> generateGray(depth, v)
                 [] curve = "moore" -> generateMoore(depth, v)
                 [] curve = "sierpinski" -> generateSierpinski(depth, v)
                 [] curve = "gosper" -> generateGosper(depth, v)
                 [] OTHER -> <<>>
    IN  [k \in 1..Len(pts) |->
            IF pts[k].den = 0 THEN pts[k]
            ELSE [pts[k] EXCEPT !.den = @ * v.den]]

\* drawIndex, isAnimating, animationId and the pending callbacks
CpAnim ==
    [index |-> cpIndex, animating |-> cpAnimating, animId |-> cpAnimId,
     last |-> cpTimerLast, old |-> cpTimersOld, frames |-> cpFrames]

CpSetAnim(s) ==
    /\ cpIndex' = s.index /\ cpAnimating' = s.animating /\ cpAnimId' = s.animId
    /\ cpTimerLast' = s.last /\ cpTimersOld' = s.old /\ cpFrames' = s.frames

\* cancelAnimationFrame(animationId).  animationId holds the id of a timer;
\* hit says that a pending frame request happens to carry the same number
\* as its handle, which is left to the browser.
cancelAnimationFrame(s, hit) ==
    IF s.animId /\ hit /\ s.frames > 0 THEN [s EXCEPT !.frames = @ - 1] ELSE s

\* stopAnimation()
stopAnimation(s, hit) ==
    [cancelAnimationFrame(s, hit) EXCEPT !.animating = FALSE, !.last = FALSE]

\* drawNextPoint(), len being drawingPoints.length
drawNextPoint(s, paused, len, hit) ==
    IF paused \/ s.index >= len - 1
    THEN IF s.index >= len - 1 THEN stopAnimation(s, hit) ELSE s
    ELSE [s EXCEPT !.index = @ + 1, !.animId = TRUE, !.last = TRUE,
                   !.old = @ + (IF s.last THEN 1 ELSE 0)]

CpIdle ==
    /\ cpView = DefaultPageView /\ cpCurve = "none" /\ cpDepth = -1
    /\ cpLineColor = FALSE /\ cpPoints = <<>> /\ cpIndex = 0
    /\ cpAnimating = FALSE /\ cpAnimId = FALSE /\ cpPaused = FALSE
    /\ cpTimerLast = FALSE /\ cpTimersOld = 0 /\ cpFrames = 0
    /\ cpClicks = 0 /\ cpCalls = {}

\* The page after the script has run: resizeCanvas() called drawFull(), which
\* drew the grid and stopped at the undeclared lineColor.
CpStart ==
    /\ cpView = DefaultPageView /\ cpCurve = "peano" /\ cpDepth = 3
    /\ cpLineColor = FALSE /\ cpPoints = <<>> /\ cpIndex = 0
    /\ cpAnimating = FALSE /\ cpAnimId = FALSE /\ cpPaused = FALSE
    /\ cpTimerLast = FALSE /\ cpTimersOld = 0 /\ cpFrames = 0
    /\ cpClicks = 0 /\ cpCalls = {}

\* drawBtn click, with startAnimation() and its drawNextPoint().  The second
\* cancelAnimationFrame, in stopAnimation, is given the same id as the first
\* and finds nothing more.
CpDraw ==
    /\ cpClicks < MaxEvents
    /\ \E c \in PageCurves, d \in PageDepths, hit \in BOOLEAN :
          LET pts == generateCurvePoints(c, d, cpView)
              s0  == cancelAnimationFrame(CpAnim, hit)
              s1  == [s0 EXCEPT !.index = 0, !.animating = TRUE]
          IN  /\ cpCurve' = c /\ cpDepth' = d
              /\ cpPoints' = pts
              /\ cpCalls' = cpCalls \cup {[curve |-> c, depth |-> d, pts |-> pts]}
              /\ CpSetAnim(drawNextPoint(s1, FALSE, Len(pts), FALSE))
    /\ cpPaused' = FALSE
    /\ cpLineColor' = TRUE
    /\ cpClicks' = cpClicks + 1
    /\ UNCHANGED cpView
    /\ UNCHANGED <<escVars, cgVars, afVars, nwVars, apVars, lsVars, ttVars, sfVars, gmVars, b3Vars, ncVars, pvVars>>

\* pauseBtn click
CpPause ==
    /\ cpClicks < MaxEvents
    /\ cpPaused' = TRUE
    /\ cpClicks' = cpClicks + 1
    /\ UNCHANGED <<cpView, cpCurve, cpDepth, cpLineColor, cpPoints, cpIndex,
                   cpAnimating, cpAnimId, cpTimerLast, cpTimersOld, cpFrames, cpCalls>>
    /\ UNCHANGED <<escVars, cgVars, afVars, nwVars, apVars, lsVars, ttVars, sfVars, gmVars, b3Vars, ncVars, pvVars>>

\* resumeBtn click: if (!paused) return; paused = false; drawNextPoint()
CpResume ==
    /\ cpClicks < MaxEvents
    /\ cpPaused
    /\ cpPaused' = FALSE
    /\ \E hit \in BOOLEAN :
          CpSetAnim(drawNextPoint(CpAnim, FALSE, Len(cpPoints), hit))
    /\ cpClicks' = cpClicks + 1
    /\ UNCHANGED <<cpView, cpCurve, cpDepth, cpLineColor, cpPoints,
                   cpCalls>>
    /\ UNCHANGED <<escVars, cgVars, afVars, nwVars, apVars, lsVars, ttVars, sfVars, gmVars, b3Vars, ncVars, pvVars>>

\* clearBtn click: paused = true; cancelAnimationFrame(animationId); the
\* drawing that follows changes nothing followed here.
CpClear ==
    /\ cpClicks < MaxEvents
    /\ cpPaused' = TRUE
    /\ \E hit \in BOOLEAN : CpSetAnim(cancelAnimationFrame(CpAnim, hit))
    /\ cpClicks' = cpClicks + 1
    /\ UNCHANGED <<cpView, cpCurve, cpDepth, cpLineColor, cpPoints,
                   cpCalls>>
    /\ UNCHANGED <<escVars, cgVars, afVars, nwVars, apVars, lsVars, ttVars, sfVars, gmVars, b3Vars, ncVars, pvVars>>

\* A pending timer fires: () => requestAnimationFrame(drawNextPoint)
CpTimeout ==
    /\ \/ /\ cpTimerLast
          /\ cpTimerLast' = FALSE
          /\ UNCHANGED cpTimersOld
       \/ /\ cpTimersOld > 0
          /\ cpTimersOld' = cpTimersOld - 1
          /\ UNCHANGED cpTimerLast
    /\ cpFrames' = cpFrames + 1
    /\ UNCHANGED <<cpView, cpCurve, cpDepth, cpLineColor, cpPoints, cpIndex,
                   cpAnimating, cpAnimId, cpPaused, cpClicks, cpCalls>>
    /\ UNCHANGED <<escVars, cgVars, afVars, nwVars, apVars, lsVars, ttVars, sfVars, gmVars, b3Vars, ncVars, pvVars>>

\* A requested frame fires: drawNextPoint()
CpFrame ==
    /\ cpFrames > 0
    /\ \E hit \in BOOLEAN :
          CpSetAnim(drawNextPoint([CpAnim EXCEPT !.frames = @ - 1], cpPaused,
                                  Len(cpPoints), hit))
    /\ UNCHANGED <<cpView, cpCurve, cpDepth, cpLineColor, cpPoints, cpPaused,
                   cpClicks, cpCalls>>
    /\ UNCHANGED <<escVars, cgVars, afVars, nwVars, apVars, lsVars, ttVars, sfVars, gmVars, b3Vars, ncVars, pvVars>>

\* drawFull() under the view v: drawGrid() throws at the undeclared lineColor
\* until a Draw click has assigned it; after that drawingPoints is generated
\* again and drawIndex set to 0.
drawFull(v) ==
    IF cpLineColor
    THEN LET pts == generateCurvePoints(cpCurve, cpDepth, v)
         IN  /\ cpPoints' = pts
             /\ cpIndex' = 0
             /\ cpCalls' = cpCalls \cup
                    {[curve |-> cpCurve, depth |-> cpDepth, pts |-> pts]}
    ELSE UNCHANGED <<cpPoints, cpIndex, cpCalls>>

\* The handler has given the view the value v and calls drawFull().
CpViewEvent(v) ==
    /\ cpView' = v
    /\ drawFull(v)
    /\ cpClicks' = cpClicks + 1
    /\ UNCHANGED <<cpCurve, cpDepth, cpLineColor, cpAnimating, cpAnimId, cpPaused,
                   cpTimerLast, cpTimersOld, cpFrames>>
    /\ UNCHANGED <<escVars, cgVars, afVars, nwVars, apVars, lsVars, ttVars, sfVars, gmVars, b3Vars, ncVars, pvVars>>

\* wheel on the canvas
CpWheel ==
    /\ cpClicks < MaxEvents
    /\ \E m \in MousePoints, f \in WheelZooms : CpViewEvent(WheelView(cpView, m, f))

\* mousemove on the canvas between mousedown and mouseup
CpDrag ==
    /\ cpClicks < MaxEvents
    /\ \E d \in DragMoves : CpViewEvent(DragView(cpView, d))

\* window resize: resizeCanvas() reads the size of the canvas again and
\* calls drawFull() unless an animation is running
CpResize ==
    /\ cpClicks < MaxEvents
    /\ IF ~cpAnimating
       THEN drawFull(cpView)
       ELSE UNCHANGED <<cpPoints, cpIndex, cpCalls>>
    /\ cpClicks' = cpClicks + 1
    /\ UNCHANGED <<cpView, cpCurve, cpDepth, cpLineColor, cpAnimating, cpAnimId,
                   cpPaused, cpTimerLast, cpTimersOld, cpFrames>>
    /\ UNCHANGED <<escVars, cgVars, afVars, nwVars, apVars, lsVars, ttVars, sfVars, gmVars, b3Vars, ncVars, pvVars>>

\* resetBtn click: resetView()
CpResetView ==
    /\ cpClicks < MaxEvents
    /\ CpViewEvent(DefaultPageView)

CpNext ==
    \/ CpDraw \/ CpPause \/ CpResume \/ CpClear \/ CpTimeout \/ CpFrame
    \/ CpWheel \/ CpDrag \/ CpResetView \/ CpResize

(***************************************************************************)
(* 3DFractals.js: generateMandelbulb and generateJulia3D.  Coordinates are  *)
(* in quarters; nan marks the NaN that acos(zz / r) gives at r = 0 and that *)
(* every later value inherits.  The powers followed are 0 and 1, for which  *)
(* the spherical step is exact: power 1 gives back (zx, zy, zz), power 0    *)
(* gives (0, 0, 1); the doubles of the code are the roundings of these.     *)
(***************************************************************************)
MaxBulbIter == 2

MaxDensity == 2

\* v as a number of quarters
Quarters(v) == 4 * v

\* the values Math.random() * 3 - 1.5 followed here, in quarters
SeedCoords == {-3, 0, 3}

BulbPowers == {0, 1}

BulbBailouts == {1, 2}

\* the argument c of generateJulia3D, in quarters
BulbConstants == { <<2, 0, 0>> }

Vec3(x, y, z) == [x |-> x, y |-> y, z |-> z, nan |-> FALSE]

NaN3 == [x |-> 0, y |-> 0, z |-> 0, nan |-> TRUE]

\* r > bailout for r = Math.sqrt(zx * zx + zy * zy + zz * zz); false for NaN
ExceedsBailout(z, bailout) ==
    /\ ~z.nan
    /\ z.x * z.x + z.y * z.y + z.z * z.z > Quarters(bailout) * Quarters(bailout)

\* (rn sin(theta) cos(phi), rn sin(theta) sin(phi), rn cos(theta)) for
\* theta = acos(zz / r) * power, phi = atan2(zy, zx) * power, rn = r ^ power
SphericalPower(z, power) ==
    IF z.nan \/ (z.x = 0 /\ z.y = 0 /\ z.z = 0) THEN NaN3
    ELSE IF power = 0 THEN Vec3(0, 0, Quarters(1))
    ELSE z

\* the spherical step plus the constant c
BulbStep(z, c, power) ==
    LET w == SphericalPower(z, power)
    IN  IF w.nan THEN NaN3 ELSE Vec3(w.x + c[1], w.y + c[2], w.z + c[3])

\* for (let n = 0; n < iterations; n++) from n on: [escaped, z] at the exit
RECURSIVE BulbLoop(_, _, _, _, _, _)
BulbLoop(z, c, power, bailout, n, iterations) ==
    IF n >= iterations THEN [escaped |-> FALSE, z |-> z]
    ELSE IF ExceedsBailout(z, bailout) THEN [escaped |-> TRUE, z |-> z]
    ELSE BulbLoop(BulbStep(z, c, power), c, power, bailout, n + 1, iterations)

\* One sample of generateMandelbulb from the seed (x, y, z): what it appends
\* to result.
MandelbulbSample(seed, a) ==
    LET s == Vec3(seed[1], seed[2], seed[3])
        e == BulbLoop(s, seed, a.power, a.bailout, 0, a.iterations)
    IN  IF e.escaped THEN <<>> ELSE <<s>>

\* One sample of generateJulia3D from the seed (zx, zy, zz): what it appends
\* to result.
Julia3DSample(seed, a) ==
    LET e == BulbLoop(Vec3(seed[1], seed[2], seed[3]), a.c, a.power, a.bailout,
                      0, a.iterations)
    IN  IF e.escaped THEN <<>> ELSE <<e.z>>

B3Idle ==
    /\ b3Pc = "idle" /\ b3Family = "none" /\ b3Args = <<>> /\ b3I = 0
    /\ b3Result = <<>> /\ b3Seeds = <<>>

\* One of the two generators has been called.
B3Start ==
    /\ b3Pc = "loop"
    /\ b3Family \in {"mandelbulb", "julia3D"}
    /\ b3Args \in [iterations : 0..MaxBulbIter, power : BulbPowers,
                   bailout : BulbBailouts, density : 0..MaxDensity,
                   c : BulbConstants]
    /\ b3I = 0 /\ b3Result = <<>> /\ b3Seeds = <<>>

\* generateMandelbulb: one iteration of the loop over i
MbSample ==
    /\ b3Pc = "loop" /\ b3Family = "mandelbulb"
    /\ b3I < b3Args.density
    /\ \E seed \in SeedCoords \X SeedCoords \X SeedCoords :
          /\ b3Result' = b3Result \o MandelbulbSample(seed, b3Args)
          /\ b3Seeds' = Append(b3Seeds, seed)
    /\ b3I' = b3I + 1
    /\ UNCHANGED <<b3Pc, b3Family, b3Args>>
    /\ UNCHANGED <<escVars, cgVars, afVars, nwVars, apVars, lsVars, ttVars, sfVars, gmVars, cpVars, ncVars, pvVars>>

\* generateJulia3D: one iteration of the loop over i
J3Sample ==
    /\ b3Pc = "loop" /\ b3Family = "julia3D"
    /\ b3I < b3Args.density
    /\ \E seed \in SeedCoords \X SeedCoords \X SeedCoords :
          /\ b3Result' = b3Result \o Julia3DSample(seed, b3Args)
          /\ b3Seeds' = Append(b3Seeds, seed)
    /\ b3I' = b3I + 1
    /\ UNCHANGED <<b3Pc, b3Family, b3Args>>
    /\ UNCHANGED <<escVars, cgVars, afVars, nwVars, apVars, lsVars, ttVars, sfVars, gmVars, cpVars, ncVars, pvVars>>

\* return result
B3Return ==
    /\ b3Pc = "loop"
    /\ b3I >= b3Args.density
    /\ b3Pc' = "done"
    /\ UNCHANGED <<b3Family, b3Args, b3I, b3Result, b3Seeds>>
    /\ UNCHANGED <<escVars, cgVars, afVars, nwVars, apVars, lsVars, ttVars, sfVars, gmVars, cpVars, ncVars, pvVars>>

B3Next == MbSample \/ J3Sample \/ B3Return

(***************************************************************************)
(* newtonMethod.js: newtonConverge called directly, several times on one    *)
(* registry.  z0 may hold Infinity; k = -2 makes 1 a double root of f, so   *)
(* that f and its derivative vanish there together.                         *)
(***************************************************************************)
NoResult == [hit |-> FALSE, idx |-> -2, iter |-> -1]

NcIdle ==
    /\ ncPc = "idle" /\ ncArgs = <<>> /\ ncRoots = <<>> /\ ncBefore = <<>>
    /\ ncResult = NoResult

(***************************************************************************)
(* The plane-iteration visualiser: playing, paths, stepIndex, dragging and  *)
(* animationFrameId under the buttons, the canvas mouse events, the example *)
(* select and the frame callback, with what the fx / gy and iterations      *)
(* controls hold.  Of paths only its being null or not and the length of    *)
(* its orbits are followed, and of the fx / gy text only whether            *)
(* compileFunction accepts it and whether the compiled function can be      *)
(* called; xRange, yRange and zoomLevel are not followed.  A frame is       *)
(* requested only when animationFrameId is null or from animate itself, so  *)
(* at most one is pending, and it is the one animationFrameId names.        *)
(***************************************************************************)
MaxPlaneIter == 3

MaxPlaneClicks == 3

stepsPerFrame == 2

DefaultIterations == 100

\* What the fx and gy controls hold: text that compiles and evaluates, text
\* new Function rejects (compileFunction throws), and text that compiles but
\* throws when called (an unknown identifier).
FxKinds == {"ok", "syntax", "throws"}

\* examples: the iterations of the four entries
ExampleIterations == {800, 1000, 1500}

\* Math.max(1, Number(controls.iterations.value) || 100)
iterationsOf(v) == Max2(1, IF v = 0 THEN DefaultIterations ELSE v)

\* progressiveDrawingPlanePaths(..., stepIndex, stepsPerFrame, ...): the
\* maxStep it returns, len being paths[0].length - 1
progressiveDrawingPlanePaths(stepIndex, perFrame, len) ==
    Min2(stepIndex + perFrame, len)

\* drawAll(resetStep) on s = [paths, len, step]: the three after the call,
\* and whether the call ended in an exception.  When compileFunction throws
\* the call returns before paths and stepIndex are touched; when the
\* compiled function throws, generateAllPlanePaths does and the exception
\* leaves drawAll before the assignment of paths.
drawAll(resetStep, fx, iterations, s) ==
    IF fx = "syntax" THEN [paths |-> s.paths, len |-> s.len, step |-> s.step, threw |-> FALSE]
    ELSE IF fx = "throws" THEN [paths |-> s.paths, len |-> s.len, step |-> s.step, threw |-> TRUE]
    ELSE LET len == iterationsOf(iterations)
         IN  [paths |-> TRUE, len |-> len,
              step |-> progressiveDrawingPlanePaths(IF resetStep THEN 0 ELSE s.step,
                                                    Max2(stepsPerFrame, 2), len),
              threw |-> FALSE]

PvState == [paths |-> pvPaths, len |-> pvLen, step |-> pvStep]

PvIdle ==
    /\ pvPlaying = FALSE /\ pvPaths = FALSE /\ pvLen = 0 /\ pvIterations = 0
    /\ pvFx = "ok" /\ pvDragging = FALSE /\ pvStep = 0
    /\ pvFrameId = FALSE /\ pvPending = FALSE /\ pvClicks = 0 /\ pvLast = "none"
    /\ pvLinesMode = FALSE

\* The page after loading: drawAll(true) has run on paths = null.
PvStart ==
    /\ pvPlaying = FALSE /\ pvDragging = FALSE
    /\ pvIterations \in 0..MaxPlaneIter
    /\ pvFx \in FxKinds
    /\ LET r == drawAll(TRUE, pvFx, pvIterations, [paths |-> FALSE, len |-> 0, step |-> 0])
       IN  pvPaths = r.paths /\ pvLen = r.len /\ pvStep = r.step
    /\ pvFrameId = FALSE /\ pvPending = FALSE /\ pvClicks = 0 /\ pvLast = "none"
    /\ pvLinesMode = FALSE

\* playPauseButton click.  An exception in drawAll ends the handler.  The
\* history says whether the click paused a running animation, resumed after
\* a pause or a clear, or started one.
PvPlayPause ==
    /\ pvClicks < MaxPlaneClicks
    /\ LET r == IF pvPaths THEN [paths |-> pvPaths, len |-> pvLen, step |-> pvStep, threw |-> FALSE]
                ELSE drawAll(FALSE, pvFx, pvIterations, PvState)
       IN  IF r.threw
           THEN /\ pvLast' = "failed"
                /\ UNCHANGED <<pvPaths, pvLen, pvStep, pvPlaying, pvFrameId, pvPending>>
           ELSE /\ pvPaths' = r.paths /\ pvLen' = r.len /\ pvStep' = r.step
                /\ pvPlaying' = ~pvPlaying
                /\ IF ~pvPlaying /\ ~pvFrameId
                   THEN pvFrameId' = TRUE /\ pvPending' = TRUE
                   ELSE UNCHANGED <<pvFrameId, pvPending>>
                /\ pvLast' = IF pvPlaying THEN "pause"
                             ELSE IF ~r.paths THEN "nopaths"
                             ELSE IF pvLast \in {"pause", "clear"} THEN "resume"
                             ELSE "play"
    /\ pvClicks' = pvClicks + 1
    /\ UNCHANGED <<pvIterations, pvFx, pvDragging>>
    /\ UNCHANGED pvLinesMode
    /\ UNCHANGED <<escVars, cgVars, afVars, nwVars, apVars, lsVars, ttVars, sfVars, gmVars, cpVars, b3Vars, ncVars>>

\* clearButton click
PvClear ==
    /\ pvClicks < MaxPlaneClicks
    /\ pvPaths' = FALSE
    /\ pvLen' = 0
    /\ pvStep' = 0
    /\ pvPlaying' = FALSE
    /\ pvPending' = FALSE
    /\ pvLast' = "clear"
    /\ pvClicks' = pvClicks + 1
    /\ UNCHANGED <<pvIterations, pvFx, pvDragging, pvFrameId>>
    /\ UNCHANGED pvLinesMode
    /\ UNCHANGED <<escVars, cgVars, afVars, nwVars, apVars, lsVars, ttVars, sfVars, gmVars, cpVars, b3Vars, ncVars>>

\* What a handler that ends in drawAll(resetStep) leaves.
PvRedraw(resetStep, fx, iterations, last) ==
    LET r == drawAll(resetStep, fx, iterations, PvState)
    IN  /\ pvPaths' = r.paths /\ pvLen' = r.len /\ pvStep' = r.step
        /\ pvLast' = last

\* resetButton click: drawAll(true)
PvReset ==
    /\ pvClicks < MaxPlaneClicks
    /\ PvRedraw(TRUE, pvFx, pvIterations, "reset")
    /\ pvClicks' = pvClicks + 1
    /\ UNCHANGED <<pvPlaying, pvIterations, pvFx, pvDragging, pvFrameId, pvPending>>
    /\ UNCHANGED pvLinesMode
    /\ UNCHANGED <<escVars, cgVars, afVars, nwVars, apVars, lsVars, ttVars, sfVars, gmVars, cpVars, b3Vars, ncVars>>

\* canvas click: zoomAtPoint ends in drawAll(true)
PvZoom ==
    /\ pvClicks < MaxPlaneClicks
    /\ PvRedraw(TRUE, pvFx, pvIterations, "zoom")
    /\ pvClicks' = pvClicks + 1
    /\ UNCHANGED <<pvPlaying, pvIterations, pvFx, pvDragging, pvFrameId, pvPending>>
    /\ UNCHANGED pvLinesMode
    /\ UNCHANGED <<escVars, cgVars, afVars, nwVars, apVars, lsVars, ttVars, sfVars, gmVars, cpVars, b3Vars, ncVars>>

\* canvas mousedown
PvMouseDown ==
    /\ pvClicks < MaxPlaneClicks
    /\ pvDragging' = TRUE
    /\ pvClicks' = pvClicks + 1
    /\ UNCHANGED <<pvPlaying, pvPaths, pvLen, pvIterations, pvFx, pvStep, pvFrameId,
                   pvPending, pvLast>>
    /\ UNCHANGED pvLinesMode
    /\ UNCHANGED <<escVars, cgVars, afVars, nwVars, apVars, lsVars, ttVars, sfVars, gmVars, cpVars, b3Vars, ncVars>>

\* canvas mouseup and mouseleave
PvMouseUp ==
    /\ pvClicks < MaxPlaneClicks
    /\ pvDragging' = FALSE
    /\ pvClicks' = pvClicks + 1
    /\ UNCHANGED <<pvPlaying, pvPaths, pvLen, pvIterations, pvFx, pvStep, pvFrameId,
                   pvPending, pvLast>>
    /\ UNCHANGED pvLinesMode
    /\ UNCHANGED <<escVars, cgVars, afVars, nwVars, apVars, lsVars, ttVars, sfVars, gmVars, cpVars, b3Vars, ncVars>>

\* canvas mousemove: while dragging the handler pans and calls drawAll(false)
PvMouseMove ==
    /\ pvClicks < MaxPlaneClicks
    /\ IF pvDragging
       THEN PvRedraw(FALSE, pvFx, pvIterations, "drag")
       ELSE UNCHANGED <<pvPaths, pvLen, pvStep, pvLast>>
    /\ pvClicks' = pvClicks + 1
    /\ UNCHANGED <<pvPlaying, pvIterations, pvFx, pvDragging, pvFrameId, pvPending>>
    /\ UNCHANGED pvLinesMode
    /\ UNCHANGED <<escVars, cgVars, afVars, nwVars, apVars, lsVars, ttVars, sfVars, gmVars, cpVars, b3Vars, ncVars>>

\* exampleSelect change: the controls take the example's text and
\* iterations, then drawAll(true)
PvExampleChange ==
    /\ pvClicks < MaxPlaneClicks
    /\ \E n \in ExampleIterations :
          /\ pvIterations' = n
          /\ pvFx' = "ok"
          /\ PvRedraw(TRUE, "ok", n, "example")
    /\ pvClicks' = pvClicks + 1
    /\ UNCHANGED <<pvPlaying, pvDragging, pvFrameId, pvPending>>
    /\ UNCHANGED pvLinesMode
    /\ UNCHANGED <<escVars, cgVars, afVars, nwVars, apVars, lsVars, ttVars, sfVars, gmVars, cpVars, b3Vars, ncVars>>

\* The user edits the fx / gy or the iterations control; no listener runs,
\* the next drawAll reads the new values.
PvControlInput ==
    /\ pvClicks < MaxPlaneClicks
    /\ pvFx' \in FxKinds
    /\ pvIterations' \in 0..MaxPlaneIter
    /\ <<pvFx', pvIterations'>> # <<pvFx, pvIterations>>
    /\ pvClicks' = pvClicks + 1
    /\ UNCHANGED <<pvPlaying, pvPaths, pvLen, pvDragging, pvStep, pvFrameId, pvPending,
                   pvLast>>
    /\ UNCHANGED pvLinesMode
    /\ UNCHANGED <<escVars, cgVars, afVars, nwVars, apVars, lsVars, ttVars, sfVars, gmVars, cpVars, b3Vars, ncVars>>

\* keydown "l" and the change of the lines checkbox: linesMode is set and,
\* when paths is not null, the steps 0 .. stepIndex are drawn again in a local
\* counter; paths and stepIndex stay.
PvLinesMode ==
    /\ pvClicks < MaxPlaneClicks
    /\ pvLinesMode' \in BOOLEAN
    /\ pvClicks' = pvClicks + 1
    /\ UNCHANGED <<pvPlaying, pvPaths, pvLen, pvIterations, pvFx, pvDragging, pvStep,
                   pvFrameId, pvPending, pvLast>>
    /\ UNCHANGED <<escVars, cgVars, afVars, nwVars, apVars, lsVars, ttVars, sfVars, gmVars, cpVars, b3Vars, ncVars>>

\* The requested frame fires: animate()
PvAnimate ==
    /\ pvPending
    /\ IF ~pvPlaying \/ ~pvPaths
       THEN /\ pvPending' = FALSE
            /\ UNCHANGED <<pvStep, pvPlaying, pvFrameId>>
       ELSE LET s == progressiveDrawingPlanePaths(pvStep, stepsPerFrame, pvLen)
            IN  /\ pvStep' = s
                /\ IF s >= pvLen
                   THEN pvPlaying' = FALSE /\ pvFrameId' = FALSE /\ pvPending' = FALSE
                   ELSE pvPlaying' = TRUE /\ pvFrameId' = TRUE /\ pvPending' = TRUE
    /\ UNCHANGED <<pvPaths, pvLen, pvIterations, pvFx, pvDragging, pvClicks, pvLast>>
    /\ UNCHANGED pvLinesMode
    /\ UNCHANGED <<escVars, cgVars, afVars, nwVars, apVars, lsVars, ttVars, sfVars, gmVars, cpVars, b3Vars, ncVars>>

PvNext ==
    \/ PvPlayPause \/ PvClear \/ PvReset \/ PvZoom
    \/ PvMouseDown \/ PvMouseUp \/ PvMouseMove
    \/ PvExampleChange \/ PvControlInput \/ PvLinesMode \/ PvAnimate

MoreIdle == ApIdle /\ LsIdle /\ TtIdle /\ SfIdle /\ GmIdle /\ CpIdle /\ B3Idle /\ NcIdle /\ PvIdle

(***************************************************************************)
(* newtonMethod.js: complex arithmetic.  The operands are exact; where a   *)
(* quotient is not dyadic the double the code computes is its rounding,    *)
(* and on the inputs of this model every comparison of the code is decided *)
(* by a margin far above the rounding error.                               *)
(***************************************************************************)
\* 1/tol, for tol = 1e-6.
TolInv == 1000000

\* { r: Infinity, i: Infinity }
CInf == [n |-> 0, m |-> 0, d |-> 0]

CReal(a) == [n |-> a, m |-> 0, d |-> 1]

cAdd(a, b) ==
    LET g  == Gcd(a.d, b.d)
        ea == b.d \div g
        eb == a.d \div g
    IN  IF a.d = 0 \/ b.d = 0 THEN CInf
        ELSE Cx(a.n * ea + b.n * eb, a.m * ea + b.m * eb, a.d * ea)

cSub(a, b) ==
    LET g  == Gcd(a.d, b.d)
        ea == b.d \div g
        eb == a.d \div g
    IN  IF a.d = 0 \/ b.d = 0 THEN CInf
        ELSE Cx(a.n * ea - b.n * eb, a.m * ea - b.m * eb, a.d * ea)

cMul(a, b) ==
    Cx(a.n * b.n - a.m * b.m, a.n * b.m + a.m * b.n, a.d * b.d)

\* r = (a.r*b.r + a.i*b.i)/denominator, i = (a.i*b.r - a.r*b.i)/denominator:
\* the product of a and conj(b)/denominator, the latter in lowest terms.
cDiv(a, b) ==
    LET denominator == b.n * b.n + b.m * b.m
    IN  IF denominator = 0 THEN CInf
        ELSE cMul(a, Cx(b.n * b.d, -(b.m * b.d), denominator))

cScale(a, s) == Cx(a.n * s, a.m * s, a.d)

cSqr(a) == cMul(a, a)

cCube(a) == cMul(cMul(a, a), a)

\* isFinite(cAbs(a))
cAbsIsFinite(a) == a.d # 0

\* the test for a zero derivative never succeeds
cAbsIsZeroNever(a) == FALSE

\* cAbs(a) === 0
cAbsIsZero(a) == a.d # 0 /\ a.n = 0 /\ a.m = 0

\* cAbs(a) < tol with tol = 1/TolInv: (n^2 + m^2) * TolInv^2 < d^2, decided
\* without forming the square of TolInv or of d.  With d = TolInv*q + r and
\* r*r = TolInv*hi + lo: d^2 = TolInv^2 * q^2 + TolInv*(2*q*r + hi) + lo.
cAbsLessTol(a) ==
    LET x  == Abs(a.n)
        y  == Abs(a.m)
        q  == a.d \div TolInv
        r  == a.d % TolInv
        e  == x * x + y * y - q * q
        K  == 1000
        r1 == r \div K
        r0 == r % K
        w  == 2 * K * r1 * r0 + r0 * r0
        hi == r1 * r1 + (w \div TolInv)
        lo == w % TolInv
        X  == 2 * q * r + hi
    IN  IF a.d = 0 THEN FALSE
        ELSE IF x = 0 /\ y = 0 THEN TRUE
        ELSE IF a.d <= TolInv THEN FALSE
        ELSE IF x > q \/ y > q THEN FALSE
        ELSE IF e < 0 THEN TRUE
        ELSE IF e = 0 THEN r > 0
        ELSE IF e > 2 * q THEN FALSE
        ELSE e * TolInv < X \/ (e * TolInv = X /\ lo > 0)

\* f(z) = z^3 + (k-1)*z - k
f(z, k) ==
    LET kMinus1 == cSub(k, CReal(1))
    IN  cSub(cAdd(cCube(z), cMul(kMinus1, z)), k)

\* f'(z) = 3*z^2 + (k-1)
derivF(z, k) ==
    LET threeZ2 == cScale(cSqr(z), 3)
        kMinus1 == cSub(k, CReal(1))
    IN  cAdd(threeZ2, kMinus1)

(***************************************************************************)
(* newtonMethod.js: classifyRoot(z, roots) and newtonConverge.  Both take  *)
(* the registry and give it back with their result, as it is after the     *)
(* call.  Indices are the code's, counted from 0.                          *)
(***************************************************************************)
\* The position (from 1) of the first stored root within tol of z, 0 if none.
RECURSIVE ClassifyScan(_, _, _)
ClassifyScan(z, roots, i) ==
    IF i > Len(roots) THEN 0
    ELSE IF cAbsLessTol(cSub(z, roots[i])) THEN i
    ELSE ClassifyScan(z, roots, i + 1)

\* A scan that keeps the last stored root within tol instead of the first.
RECURSIVE ClassifyScanLast(_, _, _)
ClassifyScanLast(z, roots, i) ==
    IF i < 1 THEN 0
    ELSE IF cAbsLessTol(cSub(z, roots[i])) THEN i
    ELSE ClassifyScanLast(z, roots, i - 1)

classifyRootLastMatch(z, roots) ==
    LET i == ClassifyScanLast(z, roots, Len(roots))
    IN  IF i > 0 THEN [idx |-> i - 1, roots |-> roots]
        ELSE [idx |-> Len(roots), roots |-> Append(roots, z)]

classifyRoot(z, roots) ==
    LET i == ClassifyScan(z, roots, 1)
    IN  IF i > 0 THEN [idx |-> i - 1, roots |-> roots]
        ELSE [idx |-> Len(roots), roots |-> Append(roots, z)]

Sentinel(maxIter, roots) ==
    [hit |-> FALSE, idx |-> -1, iter |-> maxIter, roots |-> roots]

\* The loop of newtonConverge from iteration iter on.  The update of z in
\* the last iteration of the budget is used only if that iteration hits;
\* the model does not compute it otherwise.
RECURSIVE NewtonLoop(_, _, _, _, _)
NewtonLoop(z, k, iter, maxIter, roots) ==
    IF iter >= maxIter THEN Sentinel(maxIter, roots)
    ELSE
        LET fz   == f(z, k)
            dfz  == derivF(z, k)
            step == cDiv(fz, dfz)
            zNew == cSub(z, step)
        IN  IF ~cAbsIsFinite(dfz) \/ cAbsIsZero(dfz) THEN Sentinel(maxIter, roots)
            ELSE IF cAbsLessTol(fz)
            THEN LET c == classifyRoot(zNew, roots)
                 IN  [hit |-> TRUE, idx |-> c.idx, iter |-> iter, roots |-> c.roots]
            ELSE IF iter + 1 >= maxIter THEN Sentinel(maxIter, roots)
            ELSE NewtonLoop(zNew, k, iter + 1, maxIter, roots)

newtonConverge(z0, k, maxIter, roots) == NewtonLoop(z0, k, 0, maxIter, roots)

(***************************************************************************)
(* newtonMethod.js: the view and one drawNewton pass.                      *)
(***************************************************************************)
\* Bounds: the centre of the view stays within MaxCentre of the origin,
\* zoomLevel within 1 .. 2^MaxZoomExp * 1.05^MaxAnimFrames, and animateZoom
\* zooms at most MaxAnimFrames times; the loaded page handles at most
\* MaxNewtonEvents events.
MaxCentre == 1
MaxZoomExp == 1
MaxAnimFrames == 2
MaxNewtonEvents == 3

DefaultView == [min |-> Cx(-2, -2, 1), max |-> Cx(2, 2, 1), zoomLevel |-> CReal(1)]

pixelToComplex(x, y, view, canvasWidth, canvasHeight) ==
    LET w == cSub(view.max, view.min)
    IN  cAdd(view.min, Cx(x * w.n * canvasHeight, y * w.m * canvasWidth,
                          w.d * canvasWidth * canvasHeight))

\* updateView(cx, cy, scaleFactor) with c = cx + i*cy and scaleFactor = sn/sd.
updateView(view, c, sn, sd) ==
    LET w    == cSub(view.max, view.min)
        half == Cx(w.n * sd, w.m * sd, 2 * w.d * sn)
    IN  [min |-> cSub(c, half), max |-> cAdd(c, half),
         zoomLevel |-> cMul(view.zoomLevel, Cx(sn, 0, sd))]

\* The view moved by a drag of (dx, dy) canvas pixels.
panView(view, dx, dy, res) ==
    LET w     == cSub(view.max, view.min)
        delta == Cx(-dx * w.n, -dy * w.m, w.d * res)
    IN  [view EXCEPT !.min = cAdd(view.min, delta), !.max = cAdd(view.max, delta)]

\* The two loops of drawNewton from pixel number p on, x outer and y inner:
\* pixel p is x = p div res, y = p mod res.  r is the value newtonConverge
\* returned for the pixel.
RECURSIVE ScanPixels(_, _, _, _, _, _, _)
ScanPixels(p, view, res, k, maxIter, roots, img) ==
    IF p >= res * res THEN [roots |-> roots, img |-> img]
    ELSE
        LET z0 == pixelToComplex(p \div res, p % res, view, res, res)
        IN  CHOOSE pass \in
                { ScanPixels(p + 1, view, res, k, maxIter, r.roots,
                             Append(img, [hit |-> r.hit, idx |-> r.idx, iter |-> r.iter]))
                    : r \in { newtonConverge(z0, k, maxIter, roots) } } : TRUE

\* A pass that goes on with the registry the pass before it left.
drawNewtonKeepsRegistry(view, inputs) ==
    ScanPixels(0, view, inputs.res, inputs.k, inputs.maxIter, nRoots, <<>>)

\* drawNewton() with the given view and input fields: const roots = [].
drawNewton(view, inputs) ==
    ScanPixels(0, view, inputs.res, inputs.k, inputs.maxIter, <<>>, <<>>)

\* The values of the input fields the model tries.
Resolutions == {1, 2}
KValues == {CReal(0), CReal(1), Cx(1, -1, 1)}
Budgets == {0, 1, 2}

InputSets == [res : Resolutions, maxIter : Budgets, k : KValues]

\* The start points whose iterates the model computes exactly in 32 bits: any
\* with no iteration, n/d with |n| <= MaxStartNum and d <= MaxStartDen with
\* one (the view after two calls of animateZoom on the default view has
\* corner 800/441), and j/2 with |j| <= 2 with two.
MaxStartNum == 800
MaxStartDen == 882

InRange(view, inputs) ==
    \/ inputs.maxIter = 0
    \/ \A x, y \in 0..(inputs.res - 1) :
          LET z0 == pixelToComplex(x, y, view, inputs.res, inputs.res)
          IN  IF inputs.maxIter = 1
              THEN z0.d <= MaxStartDen /\ Abs(z0.n) <= MaxStartNum
                                       /\ Abs(z0.m) <= MaxStartNum
              ELSE z0.d <= 2 /\ Abs(z0.n) <= 2 /\ Abs(z0.m) <= 2

Pow2(e) == 2 ^ e

InBounds(view) ==
    LET c == cAdd(view.min, view.max)      \* twice the centre
    IN  /\ Abs(c.n) <= 2 * MaxCentre * c.d
        /\ Abs(c.m) <= 2 * MaxCentre * c.d
        /\ view.zoomLevel.n >= view.zoomLevel.d
        /\ view.zoomLevel.n * (20 ^ MaxAnimFrames)
              <= Pow2(MaxZoomExp) * (21 ^ MaxAnimFrames) * view.zoomLevel.d

PgIdle ==
    /\ nPc = "idle"
    /\ nView = DefaultView
    /\ nRes = 0
    /\ nMaxIter = 0
    /\ nK = CZero
    /\ nRoots = <<>>
    /\ nImg = <<>>
    /\ nPrevRoots = <<>>
    /\ nPlaying = FALSE /\ nPending = FALSE /\ nFrames = 0 /\ nEvents = 0

\* The script has read res, maxIter and kVals from the input fields and has
\* not drawn yet.
PgStart ==
    /\ nPc = "loading"
    /\ nView = DefaultView
    /\ \E i \in InputSets :
          /\ InRange(DefaultView, i)
          /\ nRes = i.res
          /\ nMaxIter = i.maxIter
          /\ nK = i.k
    /\ nRoots = <<>>
    /\ nImg = <<>>
    /\ nPrevRoots = <<>>
    /\ nPlaying = FALSE /\ nPending = FALSE /\ nFrames = 0 /\ nEvents = 0

\* The input fields as the script read them last.
Fields == [res |-> nRes, maxIter |-> nMaxIter, k |-> nK]

\* drawNewton() on the given view, the input fields holding inputs.
Pass(view, inputs) ==
    /\ InBounds(view)
    /\ InRange(view, inputs)
    /\ \E pass \in { drawNewton(view, inputs) } :
          nRoots' = pass.roots /\ nImg' = pass.img
    /\ nView' = view
    /\ nRes' = inputs.res
    /\ nMaxIter' = inputs.maxIter
    /\ nK' = inputs.k
    /\ nPrevRoots' = nRoots
    /\ UNCHANGED <<escVars, cgVars, afVars, crVars, moreVars>>

\* The drawNewton() that ends the script.
NwLoad ==
    /\ nPc = "loading"
    /\ nPc' = "ready"
    /\ Pass(nView, Fields)
    /\ UNCHANGED <<nPlaying, nPending, nFrames, nEvents>>

\* A handler of the loaded page that ends with drawNewton().
Redraw(view, inputs) ==
    /\ nPc = "ready"
    /\ nEvents < MaxNewtonEvents
    /\ nEvents' = nEvents + 1
    /\ UNCHANGED nPc
    /\ Pass(view, inputs)
    /\ UNCHANGED <<nPlaying, nPending, nFrames>>

\* The Draw button, after the user has set the input fields.
NwDrawButton == \E i \in InputSets : Redraw(nView, i)

\* click at canvas pixel (x, y): zoom in by 2 about the point clicked.
NwClick ==
    \E x, y \in 0..nRes :
        Redraw(updateView(nView, pixelToComplex(x, y, nView, nRes, nRes), 2, 1), Fields)

\* contextmenu at canvas pixel (x, y): zoom out, scaleFactor 0.5.
NwContextMenu ==
    \E x, y \in 0..nRes :
        Redraw(updateView(nView, pixelToComplex(x, y, nView, nRes, nRes), 1, 2), Fields)

\* mousemove by (dx, dy) pixels while dragging.
NwDrag ==
    \E dx, dy \in {-1, 0, 1} : Redraw(panView(nView, dx, dy, nRes), Fields)

NwResetView == Redraw(DefaultView, Fields)

\* toggleGridBtn click: drawGrid = !drawGrid; drawNewton()
NwToggleGrid ==
    /\ nPc = "ready"
    /\ Redraw(nView, Fields)

\* animateZoom() past its return on !isPlaying: updateView(cx, cy, 1.05) about the
\* centre of the view, drawNewton(), and the next frame is requested.
animateZoom ==
    LET s == cAdd(nView.min, nView.max)
    IN  /\ nFrames < MaxAnimFrames
        /\ Pass(updateView(nView, Cx(s.n, s.m, 2 * s.d), 21, 20), Fields)
        /\ nPending' = TRUE
        /\ nFrames' = nFrames + 1

\* toggleAnimBtn click: a running animation is stopped and its frame
\* cancelled; otherwise isPlaying = true and animateZoom() runs at once.
NwToggleAnim ==
    /\ nPc = "ready"
    /\ nEvents < MaxNewtonEvents
    /\ nEvents' = nEvents + 1
    /\ UNCHANGED nPc
    /\ IF nPlaying
       THEN /\ nPlaying' = FALSE
            /\ nPending' = FALSE
            /\ UNCHANGED <<nView, nRes, nMaxIter, nK, nRoots, nImg, nPrevRoots, nFrames>>
            /\ UNCHANGED <<escVars, cgVars, afVars, crVars, moreVars>>
       ELSE /\ nPlaying' = TRUE
            /\ animateZoom

\* The requested frame fires: animateZoom()
NwAnimFrame ==
    /\ nPc = "ready"
    /\ nPending
    /\ nEvents < MaxNewtonEvents
    /\ nEvents' = nEvents + 1
    /\ UNCHANGED <<nPc, nPlaying>>
    /\ IF nPlaying THEN animateZoom
       ELSE /\ nPending' = FALSE
            /\ UNCHANGED <<nView, nRes, nMaxIter, nK, nRoots, nImg, nPrevRoots, nFrames>>
            /\ UNCHANGED <<escVars, cgVars, afVars, crVars, moreVars>>

PgNext ==
    \/ NwLoad \/ NwDrawButton \/ NwClick \/ NwContextMenu \/ NwDrag \/ NwResetView
    \/ NwToggleGrid \/ NwToggleAnim \/ NwAnimFrame

(***************************************************************************)
(* classifyRoot called again and again on the registry of one pass, with   *)
(* points a few units of 2^-21 apart, so that some are within tol = 1e-6   *)
(* of each other (2 units) and some are not (3 units, or 2 and 1).         *)
(***************************************************************************)
FineMax == 3
MaxRoots == 3

FineDen == 2 ^ 21

FinePoints ==
    { Cx(a, b, FineDen) : a \in 0..FineMax, b \in 0..1 } \cup { CReal(1) }

CrIdle ==
    /\ crPc = "idle"
    /\ crRoots = <<>>
    /\ crZ = CZero
    /\ crIdx = -1
    /\ crBefore = <<>>

CrStart ==
    /\ crPc = "ready"
    /\ crRoots = <<>>
    /\ crZ = CZero
    /\ crIdx = -1
    /\ crBefore = <<>>

CrCall ==
    /\ crPc \in {"ready", "called"}
    /\ \E z \in FinePoints :
          LET c == classifyRoot(z, crRoots)
          IN  /\ Len(c.roots) <= MaxRoots
              /\ crRoots' = c.roots
              /\ crIdx' = c.idx
              /\ crZ' = z
    /\ crBefore' = crRoots
    /\ crPc' = "called"
    /\ UNCHANGED <<escVars, cgVars, afVars, pgVars, moreVars>>

\* The next pass begins: const roots = [].
CrNewPass ==
    /\ crPc = "called"
    /\ crPc' = "ready"
    /\ crRoots' = <<>>
    /\ crIdx' = -1
    /\ crBefore' = <<>>
    /\ UNCHANGED crZ
    /\ UNCHANGED <<escVars, cgVars, afVars, pgVars, moreVars>>

CrNext == CrCall \/ CrNewPass

ConvergeStarts == {CReal(0), CReal(1), CReal(-1), CReal(2), CInf}

ConvergeKs == {CReal(0), CReal(1), CReal(-2)}

\* const roots = [], before any call
NcStart ==
    /\ ncPc = "ready" /\ ncArgs = <<>> /\ ncRoots = <<>> /\ ncBefore = <<>>
    /\ ncResult = NoResult

\* newtonConverge(z0, k, maxIter, tol, roots), the whole call
NcCall ==
    /\ ncPc \in {"ready", "called"}
    /\ \E z0 \in ConvergeStarts, k \in ConvergeKs, maxIter \in Budgets :
          LET c == newtonConverge(z0, k, maxIter, ncRoots)
          IN  /\ Len(c.roots) <= MaxRoots
              /\ ncArgs' = [z0 |-> z0, k |-> k, maxIter |-> maxIter]
              /\ ncRoots' = c.roots
              /\ ncResult' = [hit |-> c.hit, idx |-> c.idx, iter |-> c.iter]
    /\ ncBefore' = ncRoots
    /\ ncPc' = "called"
    /\ UNCHANGED <<escVars, cgVars, afVars, nwVars, apVars, lsVars, ttVars, sfVars, gmVars, cpVars, b3Vars, pvVars>>

\* The next pass begins: const roots = [].
NcNewPass ==
    /\ ncPc = "called"
    /\ ncPc' = "ready"
    /\ ncRoots' = <<>>
    /\ ncBefore' = <<>>
    /\ ncResult' = NoResult
    /\ ncArgs' = <<>>
    /\ UNCHANGED <<escVars, cgVars, afVars, nwVars, apVars, lsVars, ttVars, sfVars, gmVars, cpVars, b3Vars, pvVars>>

NcNext == NcCall \/ NcNewPass

NwIdle == PgIdle /\ CrIdle

NewtonInit ==
    /\ EscIdle /\ CgIdle /\ AfIdle /\ MoreIdle
    /\ \/ PgStart /\ CrIdle
       \/ CrStart /\ PgIdle

NewtonNext == PgNext \/ CrNext

SpecNewton == NewtonInit /\ [][NewtonNext]_vars

(***************************************************************************)
(* The chaos-game / IFS specification: one call of one of the two          *)
(* generators, its arguments drawn in Init.                                *)
(***************************************************************************)
IfsInit ==
    /\ EscIdle
    /\ NwIdle
    /\ MoreIdle
    /\ \/ CgStart /\ AfIdle
       \/ AfStart /\ CgIdle

IfsNext == CgNext \/ AfNext

SpecIFS == IfsInit /\ [][IfsNext]_vars

EscInit == EscStart /\ CgIdle /\ AfIdle /\ NwIdle /\ MoreIdle

SpecEscape == EscInit /\ [][EscNext]_vars

(***************************************************************************)
(* The affine page specification: the page after its script has run, and   *)
(* the handlers of its controls in any order.                              *)
(***************************************************************************)
AffinePageInit == EscIdle /\ CgIdle /\ AfIdle /\ NwIdle /\ ApStart /\ LsIdle /\ TtIdle /\ SfIdle /\ GmIdle /\ CpIdle /\ B3Idle /\ NcIdle /\ PvIdle

SpecAffinePage == AffinePageInit /\ [][ApNext]_vars

(***************************************************************************)
(* The rewriting specification: one call of generateLSystemString, its     *)
(* arguments drawn in Init.                                                *)
(***************************************************************************)
RewriteInit == EscIdle /\ CgIdle /\ AfIdle /\ NwIdle /\ LsStart /\ ApIdle /\ TtIdle /\ SfIdle /\ GmIdle /\ CpIdle /\ B3Idle /\ NcIdle /\ PvIdle

SpecRewrite == RewriteInit /\ [][LsNext]_vars

(***************************************************************************)
(* The turtle specification: one instruction string, drawn in Init, is     *)
(* animated by drawLSystemAnimated and redrawn by renderLSystem.           *)
(***************************************************************************)
TurtleInit == EscIdle /\ CgIdle /\ AfIdle /\ NwIdle /\ TtStart /\ ApIdle /\ LsIdle /\ SfIdle /\ GmIdle /\ CpIdle /\ B3Idle /\ NcIdle /\ PvIdle

SpecTurtle == TurtleInit /\ [][TtNext]_vars

(***************************************************************************)
(* The curve specification: generateHilbert, generateHilbertRecursive and  *)
(* generateZOrder called with one depth, drawn in Init.                    *)
(***************************************************************************)
CurveInit == EscIdle /\ CgIdle /\ AfIdle /\ NwIdle /\ SfStart /\ ApIdle /\ LsIdle /\ TtIdle /\ GmIdle /\ CpIdle /\ B3Idle /\ NcIdle /\ PvIdle

SpecCurve == CurveInit /\ [][SfNext]_vars

(***************************************************************************)
(* The grid-order specification: generateGray, generateMoore and           *)
(* generatePeano called with one depth, drawn in Init.                     *)
(***************************************************************************)
GridInit == EscIdle /\ CgIdle /\ AfIdle /\ NwIdle /\ GmStart /\ ApIdle /\ LsIdle /\ TtIdle /\ SfIdle /\ CpIdle /\ B3Idle /\ NcIdle /\ PvIdle

SpecGrid == GridInit /\ [][GmNext]_vars

(***************************************************************************)
(* The curve page specification: the page of spaceFill.js after loading,   *)
(* under clicks, wheel and drag events, timers and frame callbacks.        *)
(***************************************************************************)
PageInit == EscIdle /\ CgIdle /\ AfIdle /\ NwIdle /\ CpStart /\ ApIdle /\ LsIdle /\ TtIdle /\ SfIdle /\ GmIdle /\ B3Idle /\ NcIdle /\ PvIdle

SpecPage == PageInit /\ [][CpNext]_vars

(***************************************************************************)
(* The 3D bailout specification: one call of generateMandelbulb or         *)
(* generateJulia3D, its arguments drawn in Init.                           *)
(***************************************************************************)
BulbInit == EscIdle /\ CgIdle /\ AfIdle /\ NwIdle /\ B3Start /\ ApIdle /\ LsIdle /\ TtIdle /\ SfIdle /\ GmIdle /\ CpIdle /\ NcIdle /\ PvIdle

SpecBulb == BulbInit /\ [][B3Next]_vars

(***************************************************************************)
(* The convergence specification: newtonConverge called with drawn         *)
(* arguments on a registry that the calls of one pass share.               *)
(***************************************************************************)
ConvergeInit == EscIdle /\ CgIdle /\ AfIdle /\ NwIdle /\ NcStart /\ ApIdle /\ LsIdle /\ TtIdle /\ SfIdle /\ GmIdle /\ CpIdle /\ B3Idle /\ PvIdle

SpecConverge == ConvergeInit /\ [][NcNext]_vars

(***************************************************************************)
(* The plane visualiser specification.  A requested animation frame that   *)
(* stays pending fires: weak fairness of the callback.                     *)
(***************************************************************************)
PlaneInit == EscIdle /\ CgIdle /\ AfIdle /\ NwIdle /\ PvStart /\ ApIdle /\ LsIdle /\ TtIdle /\ SfIdle /\ GmIdle /\ CpIdle /\ B3Idle /\ NcIdle

SpecPlane == PlaneInit /\ [][PvNext]_vars /\ WF_vars(PvAnimate)

(***************************************************************************)
(* Escape-time claims.                                                     *)
(***************************************************************************)
\* The orbit z_0 = z0, z_{j+1} = z_j^2 + c, written without a budget.
RECURSIVE OrbitAt(_, _, _)
OrbitAt(z0, c, j) == IF j = 0 THEN z0 ELSE SqrPlus(OrbitAt(z0, c, j - 1), c)

Escaped(z) == z.n * z.n + z.m * z.m > 4 * z.d * z.d

\* r = min(maxIter, k*), k* the first index of the orbit with |z|^2 > 4.
IsEscapeCount(r, z0, c, maxIter) ==
    /\ r \in 0..maxIter
    /\ \A j \in 0..(r - 1) : ~Escaped(OrbitAt(z0, c, j))
    /\ r < maxIter => Escaped(OrbitAt(z0, c, r))

\* C1: mandelbrotEscape(0, 0, maxIter) returns maxIter, the origin never
\* escapes; mandelbrotEscape(2, 2, maxIter) returns at most 2.
C1_OriginNeverEscapes ==
    mIter # -1 =>
        /\ escP = CZero => mIter = escMaxIter
        /\ escP = Cx(2, 2, 1) => mIter <= 2

C1_Witness ==
    /\ escP = CZero
    /\ escMaxIter = LongIter
    /\ mIter = LongIter

\* C2: each 2D escape loop returns min(maxIter, k*) with k* the least k such
\* that |z_k|^2 > 4 strictly; the result lies in 0..maxIter, and an orbit that
\* only reaches |z|^2 = 4 (Mandelbrot at c = -2) does not count as escaped.
C2_EscapeCountIsFirstExit ==
    /\ mIter # -1 => IsEscapeCount(mIter, CZero, escP, escMaxIter)
    /\ jIter # -1 => IsEscapeCount(jIter, escP, escK, escMaxIter)
    /\ (mIter # -1 /\ escP = Cx(-2, 0, 1)) => mIter = escMaxIter

C2_Witness ==
    /\ escP = Cx(-2, 0, 1)
    /\ escMaxIter = LongIter
    /\ mIter = LongIter
    /\ jIter = 1

\* C3: the combined page's loop returns the count of mandelbrotEscape(p) in
\* mandelbrot mode and of juliaEscape(p) with juliaK = k in julia mode, and
\* the Julia computation started from z0 = 0 with constant p returns the
\* Mandelbrot count of p.
C3_SharedStep ==
    /\ (dIter # -1 /\ dMode = "mandelbrot" /\ mIter # -1) => dIter = mIter
    /\ (dIter # -1 /\ dMode = "julia" /\ jIter # -1) => dIter = jIter
    /\ (jIter # -1 /\ escP = CZero) => jIter = mandelbrotEscape(escK, escMaxIter)
    /\ (dIter # -1 /\ dMode = "julia" /\ escP = CZero) =>
           dIter = mandelbrotEscape(escK, escMaxIter)

C3_Witness ==
    /\ dMode = "julia"
    /\ escP = CZero
    /\ escK = Cx(-1, 1, 1)
    /\ escMaxIter = LongIter
    /\ dIter = 3
    /\ jIter = 3

(***************************************************************************)
(* Newton claims.                                                          *)
(***************************************************************************)
\* The coordinates of a point of FinePoints in units of 2^-21.
UnitsRe(z) == z.n * (FineDen \div z.d)
UnitsIm(z) == z.m * (FineDen \div z.d)

\* Distance below tol, for points of FinePoints: tol^2 = 1e-12 is
\* 2^42 / 10^12 = 4.398... square units, so that the distance is below tol
\* exactly when its square is at most 4 square units.
Near(a, b) ==
    LET dx == UnitsRe(a) - UnitsRe(b)
        dy == UnitsIm(a) - UnitsIm(b)
    IN  Abs(dx) <= 2 /\ Abs(dy) <= 2 /\ dx * dx + dy * dy <= 4

\* The squared distance of two points in square units.
SqUnits(a, b) ==
    LET dx == UnitsRe(a) - UnitsRe(b)
        dy == UnitsIm(a) - UnitsIm(b)
    IN  dx * dx + dy * dy

\* The positions (from 1) of the stored roots within tol of the latest z.
Matches == { i \in 1..Len(crBefore) : Near(crZ, crBefore[i]) }

\* C5: classifyRoot(z, roots) returns the lowest index whose stored root is
\* at distance below tol from z and leaves the registry as it was; if no
\* stored root is within tol it appends z as the new last entry and returns
\* the index of that entry.  So the registry only grows at its end, stored
\* entries never change, and any two stored roots are at least tol apart.
C5_LowestMatchOrAppend ==
    /\ crPc = "called" =>
          /\ Matches # {} =>
                /\ crIdx + 1 \in Matches
                /\ \A i \in Matches : crIdx + 1 <= i
                /\ crRoots = crBefore
          /\ Matches = {} =>
                /\ crRoots = Append(crBefore, crZ)
                /\ crIdx = Len(crRoots) - 1
          /\ SubSeq(crRoots, 1, Len(crBefore)) = crBefore
    /\ \A i, j \in 1..Len(crRoots) : i < j => ~Near(crRoots[i], crRoots[j])

\* classifyRoot has met a z within tol of two stored roots, the nearer of
\* them stored later, and has also appended before.
C5_Witness ==
    /\ crPc = "called"
    /\ Len(crBefore) = MaxRoots
    /\ Cardinality(Matches) >= 2
    /\ crIdx = 0
    /\ \E i \in Matches : i > 1 /\ SqUnits(crZ, crBefore[i]) < SqUnits(crZ, crBefore[1])

\* The largest index among the hits of the first p pixels of the image, -1
\* if none of them hit.
RECURSIVE MaxIdx(_, _)
MaxIdx(img, p) ==
    IF p = 0 THEN -1
    ELSE LET m == MaxIdx(img, p - 1)
         IN  IF img[p].hit /\ img[p].idx > m THEN img[p].idx ELSE m

\* C6: every drawNewton pass starts from an empty registry, whatever the
\* passes before it found (before a zoom, a pan or a change of parameters):
\* the indices of a pass are handed out in scan order from 0, each hit
\* getting an index already handed out in this pass or the next unused one,
\* and the registry the pass ends with holds one root per index it handed out.
C6_RegistryScopedToPass ==
    nPc = "ready" =>
        /\ Len(nImg) = nRes * nRes
        /\ \A p \in 1..Len(nImg) :
              IF nImg[p].hit
              THEN nImg[p].idx \in 0..(MaxIdx(nImg, p - 1) + 1)
              ELSE nImg[p].idx = -1
        /\ Len(nRoots) = MaxIdx(nImg, Len(nImg)) + 1

\* A pass has run after a pass that found roots, and the first root it found
\* is not the first root of the pass before.
C6_Witness ==
    /\ nPc = "ready"
    /\ nPrevRoots # <<>>
    /\ nRoots # <<>>
    /\ nRoots[1] # nPrevRoots[1]
    /\ \E p \in 1..Len(nImg) : nImg[p].hit /\ nImg[p].idx = 1

(***************************************************************************)
(* Chaos-game / IFS claims.                                                *)
(***************************************************************************)
\* The latest completed step was not the first one.
CgHadPrevious == cgHist.draws > 0 /\ cgHist.prev # -1

\* C7 as amended: with noRepeat set, a step uses the index of the step before
\* it only if its retry cap was exhausted, that is all RetryCap draws of the
\* step were rejected (for repeating the previous index or, with noOppFace
\* also set, for pointing nearly opposite to p).
C7_NoRepeatUnlessCapExhausted ==
    (cgNoRepeat /\ CgHadPrevious /\ cgLastIndex = cgHist.prev) =>
        (cgHist.draws = RetryCap /\ cgHist.allRej)

C7_Witness ==
    /\ cgNoRepeat
    /\ CgHadPrevious
    /\ cgHist.draws > 1
    /\ cgLastIndex # cgHist.prev
    /\ Len(cgPts) = MaxChaosIters

\* C7 as stated: with noRepeat set, a step uses the index of the step before
\* it only if all 20 draws of the step gave that previous index.
C7_Original ==
    (cgNoRepeat /\ CgHadPrevious /\ cgLastIndex = cgHist.prev) =>
        (cgHist.draws = RetryCap /\ cgHist.allPrev)

\* C8: every step makes between 1 and RetryCap draws, moves towards the
\* target of its last draw whether or not that draw was acceptable, and
\* pushes exactly one point; the call always goes on until it returns, and
\* for a non-empty target list it returns exactly iters points.
C8_BoundedRetryOnePointPerStep ==
    /\ cgGuard \in 0..(RetryCap - 1)
    /\ cgHist.draws \in 0..RetryCap
    /\ Len(cgPts) = cgI
    /\ cgI <= cgIters
    /\ Len(cgPts) > 0 =>
          /\ cgHist.draws >= 1
          /\ cgLastIndex = cgHist.last
          /\ cgPts[Len(cgPts)] =
                Blend(IF Len(cgPts) = 1 THEN P3Zero ELSE cgPts[Len(cgPts) - 1],
                      cgTargets[cgHist.last + 1], cgLam)
    /\ cgPc \in {"call", "loop"} => ENABLED CgNext
    /\ (cgPc = "done" /\ Len(cgTargets) > 0) => Len(cgResult) = cgIters

C8_Witness ==
    /\ cgPc = "done"
    /\ Len(cgTargets) = 1
    /\ cgNoRepeat
    /\ cgIters = MaxChaosIters
    /\ Len(cgResult) = MaxChaosIters
    /\ cgHist.draws = RetryCap
    /\ cgHist.allRej

\* C9: called with an empty target or map set, generateChaosGame and
\* generateAffineFractal (n > 0) return the empty sequence and raise no error.
C9_EmptySetYieldsEmpty ==
    /\ (cgPc # "idle" /\ Len(cgTargets) = 0) =>
          (cgPc \in {"call", "done"} /\ cgResult = <<>>)
    /\ (afPc # "idle" /\ Len(afMaps) = 0 /\ afN > 0) =>
          (afPc # "error" /\ (afPc = "done" => afResult = <<>>))

\* P_j, the sum of the first j probabilities, in units of 1/ProbUnits.
RECURSIVE ProbSum(_, _)
ProbSum(maps, j) == IF j = 0 THEN 0 ELSE ProbSum(maps, j - 1) + maps[j].prob

\* The first map whose running sum reaches r, the last map if none does.
FirstReaching(maps, r) ==
    LET reach == { j \in 1..Len(maps) : r <= 2 * ProbSum(maps, j) }
    IN  IF reach = {} THEN Len(maps)
        ELSE CHOOSE j \in reach : \A i \in reach : j <= i

AfDrew == afDraw.r # -1 /\ Len(afMaps) > 0

\* chooseMap returns the first map whose running sum reaches r, the last map
\* if none does, and always a map of the list.
ChoiceIsFirstReaching ==
    AfDrew => /\ afDraw.choice = FirstReaching(afMaps, afDraw.r)
              /\ afDraw.choice \in 1..Len(afMaps)

\* C10 as amended: chooseMap returns the first map whose running sum reaches
\* r and the last map if none does, always a map of a non-empty list; with
\* probabilities summing to 1, map j is chosen exactly when r lies in
\* (P_{j-1}, P_j], except that r = 0 chooses the first map.
C10_CumulativeSampling ==
    /\ ChoiceIsFirstReaching
    /\ (AfDrew /\ ProbSum(afMaps, Len(afMaps)) = ProbUnits) =>
          \A j \in 1..Len(afMaps) :
             (afDraw.choice = j) <=>
                \/ 2 * ProbSum(afMaps, j - 1) < afDraw.r /\ afDraw.r <= 2 * ProbSum(afMaps, j)
                \/ afDraw.r = 0 /\ j = 1

C10_Witness ==
    /\ AfDrew
    /\ Len(afMaps) = MaxMaps
    /\ ProbSum(afMaps, Len(afMaps)) = ProbUnits
    /\ afMaps[1].prob > 0 /\ afMaps[2].prob > 0
    /\ afDraw.r = 2 * ProbSum(afMaps, 2)
    /\ afDraw.choice = 2

\* C10 as stated: with probabilities summing to 1, map j is chosen exactly
\* when r lies in (P_{j-1}, P_j].
C10_Original ==
    /\ ChoiceIsFirstReaching
    /\ (AfDrew /\ ProbSum(afMaps, Len(afMaps)) = ProbUnits) =>
          \A j \in 1..Len(afMaps) :
             (afDraw.choice = j) <=>
                (2 * ProbSum(afMaps, j - 1) < afDraw.r /\ afDraw.r <= 2 * ProbSum(afMaps, j))

(***************************************************************************)
(* Affine page and generator claims                                        *)
(***************************************************************************)
\* C11: whenever a handler of the affine page generates points (updateFractal
\* or stepOnce sampling from affineMaps with chooseMap), the probabilities of
\* affineMaps sum to 1.
C11_SumIsOneWhenSampling ==
    apSample.by # "" => apSample.sum = Frac(1, 1)

\* C12: with the single map a11 = a22 = 0.5, a12 = a21 = 0, b = 0 of
\* probability 1, every iteration of generateAffineFractal selects that map
\* and halves the point componentwise, so that |p_{n+1}| <= 0.5 |p_n|.
C12_ShrinkingSquareHalves ==
    [][(afPc = "loop" /\ afMaps = ShrinkingSquare /\ afDraw' # afDraw) =>
          /\ afDraw'.choice = 1
          /\ afPc' = "loop"
          /\ afI' = afI + 1
          /\ 2 * afP'.x * afP.d = afP.x * afP'.d
          /\ 2 * afP'.y * afP.d = afP.y * afP'.d
          /\ afPoints' = Append(afPoints, afP')
          /\ 4 * (afP'.x * afP'.x + afP'.y * afP'.y) * afP.d * afP.d
                <= (afP.x * afP.x + afP.y * afP.y) * afP'.d * afP'.d]_vars

C12_Witness ==
    /\ afMaps = ShrinkingSquare
    /\ afI = 2
    /\ afDraw.choice = 1
    /\ afP = [x |-> 1, y |-> -1, d |-> 4]

(***************************************************************************)
(* L-system claims                                                         *)
(***************************************************************************)
DoublingRule == [c \in {"F"} |-> <<"F", "+", "F">>]

DoublingCall ==
    lsAxiom = <<"F">> /\ lsRules = DoublingRule /\ lsIterations = 2

\* C13: generateLSystemString with axiom "F", the single rule F -> "F+F" and
\* 2 iterations returns exactly "F+F+F+F".
C13_DoublingExample ==
    (lsPc = "done" /\ DoublingCall) =>
        lsReturn = <<"F", "+", "F", "+", "F", "+", "F">>

C13_Witness == lsPc = "done" /\ DoublingCall /\ lsI = 2

\* The number of symbols a symbol becomes in one iteration: the length of its
\* replacement, 1 for a symbol that is copied.
Factor(rules, c) ==
    IF c \in DOMAIN rules /\ rules[c] # <<>> THEN Len(rules[c]) ELSE 1

RECURSIVE SumFactors(_, _, _)
SumFactors(rules, str, j) ==
    IF j > Len(str) THEN 0
    ELSE Factor(rules, str[j]) + SumFactors(rules, str, j + 1)

Occurrences(str, c) == Cardinality({ j \in 1..Len(str) : str[j] = c })

\* C14 as amended: after each iteration the length of the result is the sum of
\* the expansion factors of the symbols it had before; for axiom "F", rule
\* F -> "F+F" and 2 iterations the returned string has length 7, with 4
\* occurrences of F.
C14_LengthIsSumOfFactors ==
    /\ lsI > 0 => Len(lsResult) = SumFactors(lsRules, lsPrev, 1)
    /\ (lsPc = "done" /\ DoublingCall) =>
          Len(lsReturn) = 7 /\ Occurrences(lsReturn, "F") = 4

C14_Witness ==
    /\ lsPc = "done" /\ DoublingCall /\ Len(lsPrev) = 3 /\ Len(lsReturn) = 7

\* C14 as stated: each iteration multiplies the length by the expansion
\* factor, and for axiom "F", rule F -> "F+F" and 2 iterations the returned
\* string has length 4.
C14_Original ==
    /\ lsI > 0 => Len(lsResult) = SumFactors(lsRules, lsPrev, 1)
    /\ (lsPc = "done" /\ DoublingCall) => Len(lsReturn) = 4

\* The string the rules make of str: every symbol that is a key of rules
\* replaced by its replacement, every other symbol copied.
RECURSIVE Rewritten(_, _)
Rewritten(rules, str) ==
    IF str = <<>> THEN <<>>
    ELSE (IF Head(str) \in DOMAIN rules THEN rules[Head(str)] ELSE << Head(str) >>)
            \o Rewritten(rules, Tail(str))

\* C15: each iteration replaces, in one pass, every symbol that has a rule by
\* that rule's replacement, the empty one included, and copies every other
\* symbol; what an iteration produced is not rewritten again within it; with
\* n = 0 the axiom is returned.
C15_SimultaneousRewrite ==
    /\ lsI > 0 => lsResult = Rewritten(lsRules, lsPrev)
    /\ (lsPc = "done" /\ lsIterations = 0) => lsReturn = lsAxiom

\* "[" minus "]" among the symbols i..k of instr
BracketDepth(instr, i, k) ==
    Cardinality({ m \in i..k : instr[m] = "[" })
        - Cardinality({ m \in i..k : instr[m] = "]" })

\* Symbols i..j of instr are a balanced bracketed span "[ ... ]".
BalancedSpan(instr, i, j) ==
    /\ i < j /\ instr[i] = "[" /\ instr[j] = "]"
    /\ BracketDepth(instr, i, j) = 0
    /\ \A k \in i..(j - 1) : BracketDepth(instr, i, k) > 0

\* The pose before symbol k (after k - 1 symbols) of a walk from start angle a.
PoseBefore(trace, k, a) ==
    IF k = 1 THEN [x |-> 0, y |-> 0, angle |-> a, depth |-> 0] ELSE trace[k - 1]

\* What the claim says of the walk whose poses are trace.
TurtleLaw(trace) ==
    /\ \A i, j \in 1..Len(trace) :
          BalancedSpan(ttInstr, i, j) =>
              trace[j] = PoseBefore(trace, i, ttStartAngle)
    /\ \A k \in 1..Len(trace) :
          LET b == PoseBefore(trace, k, ttStartAngle)
              c == ttInstr[k]
          IN  /\ c \in {"F", "G"} =>
                    trace[k] = [b EXCEPT !.x = b.x + CosDeg(b.angle) * ttStep,
                                         !.y = b.y + SinDeg(b.angle) * ttStep]
              /\ c = "+" => trace[k] = [b EXCEPT !.angle = b.angle + ttAngleDeg]
              /\ c = "-" => trace[k] = [b EXCEPT !.angle = b.angle - ttAngleDeg]
              /\ c \notin {"F", "G", "+", "-", "[", "]"} => trace[k] = b

\* C16: in renderLSystem and in drawLSystemAnimated, after any balanced
\* bracketed span the turtle's x, y and heading are what they were just before
\* its "[" and the stack has the depth it had; F and G move by step along the
\* heading, + and - change only the heading, by +angle and -angle, and every
\* other symbol leaves position, heading and stack unchanged.
C16_TurtleLaw ==
    /\ ttRendered = "yes" => TurtleLaw(ttRender.trace)
    /\ TurtleLaw(ttAnim.trace)

\* Both passes have walked the plant string, whose spans are nested.
C16_Witness ==
    /\ ttInstr = RewriteOnce(PlantAxiom, PlantRules)
    /\ ttRendered = "yes" /\ Len(ttRender.trace) = Len(ttInstr)
    /\ ttPc = "drawn" /\ Len(ttAnim.trace) = Len(ttInstr)
    /\ BalancedSpan(ttInstr, 3, 9) /\ BalancedSpan(ttInstr, 4, 6)
    /\ ttAnim.trace[9] = ttAnim.trace[2]
    /\ ttAnim.trace[8] # ttAnim.trace[2]

Positions(trace) == [k \in 1..Len(trace) |-> [x |-> trace[k].x, y |-> trace[k].y]]

\* The x and the y of the origin and of every vertex of a path.
PathXs(path) == {0} \cup { path[k].x : k \in 1..Len(path) }

PathYs(path) == {0} \cup { path[k].y : k \in 1..Len(path) }

IsMin(v, S) == v \in S /\ \A w \in S : v <= w

IsMax(v, S) == v \in S /\ \A w \in S : v >= w

ExactBox(fit, path) ==
    /\ IsMin(fit.minX, PathXs(path)) /\ IsMax(fit.maxX, PathXs(path))
    /\ IsMin(fit.minY, PathYs(path)) /\ IsMax(fit.maxY, PathYs(path))

\* C17: the bounds pre-pass fitToCanvas walks the same positions as
\* renderLSystem and as drawLSystemAnimated, and its minX, maxX, minY, maxY
\* are the exact bounding box of the origin and all drawn vertices.
C17_BoundsPassMatchesDrawing ==
    /\ ttRendered = "yes" =>
          /\ Positions(ttRender.trace) = Positions(ttFit.trace)
          /\ ExactBox(ttFit, ttRender.path)
    /\ ttPc \in {"animating", "drawn"} =>
          Positions(ttAnim.trace)
              = SubSeq(Positions(ttFit.trace), 1, Len(ttAnim.trace))
    /\ ttPc = "drawn" =>
          /\ Len(ttAnim.trace) = Len(ttFit.trace)
          /\ ExactBox(ttFit, ttAnim.path)

\* Animation and redraw are complete on a string whose G move sets minY
\* and whose F move, after a turn, sets maxX.
C17_Witness ==
    /\ ttPc = "drawn" /\ ttRendered = "yes"
    /\ \E k \in 1..Len(ttInstr) :
          ttInstr[k] = "G" /\ ttAnim.trace[k].y = ttFit.minY
    /\ ttFit.minY < 0 /\ ttFit.maxX > 0

(***************************************************************************)
(* Space-filling curve claims                                              *)
(***************************************************************************)
\* C18: with N = 2^n, generateHilbert decodes the indices d = 0 .. N^2 - 1
\* to cells (x, y) with 0 <= x < N and 0 <= y < N, no two indices to the same
\* cell: a bijection onto the N x N grid.
C18_HilbertBijection ==
    /\ \A d \in 1..Len(hbCells) :
          /\ hbCells[d].x \in 0..(2 ^ sfN - 1)
          /\ hbCells[d].y \in 0..(2 ^ sfN - 1)
    /\ \A d, e \in 1..Len(hbCells) : hbCells[d] = hbCells[e] => d = e
    /\ hbPc = "done" =>
          { hbCells[d] : d \in 1..Len(hbCells) }
              = [x : 0..(2 ^ sfN - 1), y : 0..(2 ^ sfN - 1)]

\* The 4 x 4 grid has been decoded to its end.
C18_Witness ==
    /\ hbPc = "done" /\ sfN = 2 /\ Len(hbCells) = 16
    /\ hbCells[16] = [x |-> 3, y |-> 0]

\* The cell whose centre generateHilbertRecursive emitted as p under view v.
CentreCell(p, v) ==
    LET X == (p.x - v.offsetX * p.den) \div v.zoomLevel
        Y == (p.y - v.offsetY * p.den) \div v.zoomLevel
    IN  [x |-> (X - 1) \div 2, y |-> (Y - 1) \div 2]

\* p is the centre of a cell of the 2^n x 2^n grid under view v.
IsCentre(p, v, n) ==
    /\ p.den = 2 ^ (n + 1)
    /\ (p.x - v.offsetX * p.den) % (2 * v.zoomLevel) = v.zoomLevel
    /\ (p.y - v.offsetY * p.den) % (2 * v.zoomLevel) = v.zoomLevel

\* C19: for every depth n >= 1 the cells generateHilbertRecursive(n) visits
\* are those generateHilbert(n) visits, index by index, under one fixed
\* symmetry of the grid (the reflection in the diagonal, which exchanges x and
\* y); the emitted coordinates differ, cell centres against corner-normalised
\* points.
C19_RecursiveIsTransposedBitForm ==
    (sfN >= 1 /\ hrPc = "done" /\ hbPc = "done") =>
        /\ Len(hrPts) = Len(hbCells)
        /\ \A d \in 1..Len(hrPts) :
              /\ IsCentre(hrPts[d], sfView, sfN)
              /\ CentreCell(hrPts[d], sfView) = [x |-> hbCells[d].y, y |-> hbCells[d].x]
              /\ hrPts[d] # hbPoints[d]

\* Both forms have run at depth 2; the third cell is off the diagonal, so the
\* symmetry is not the identity.
C19_Witness ==
    /\ sfN = 2 /\ hrPc = "done" /\ hbPc = "done"
    /\ hbCells[2] = [x |-> 1, y |-> 0]
    /\ CentreCell(hrPts[2], sfView) = [x |-> 0, y |-> 1]
    /\ sfView.zoomLevel = 2

\* C20 as amended: for n = 1 generateZOrder visits the cells (x, y) in the
\* order (0,0), (0,1), (1,0), (1,1).
C20_ZOrderFirstGrid ==
    (sfN = 1 /\ zoPc = "done") =>
        zoCells = << [x |-> 0, y |-> 0], [x |-> 0, y |-> 1],
                     [x |-> 1, y |-> 0], [x |-> 1, y |-> 1] >>

C20_Witness ==
    /\ sfN = 1 /\ zoPc = "done" /\ Len(zoCells) = 4
    /\ zoPoints[2] = Normalised([x |-> 0, y |-> 1], 2, sfView)

\* C20 as stated: for n = 1 generateZOrder visits the cells (x, y) in the
\* order (0,0), (1,0), (0,1), (1,1).
C20_Original ==
    (sfN = 1 /\ zoPc = "done") =>
        zoCells = << [x |-> 0, y |-> 0], [x |-> 1, y |-> 0],
                     [x |-> 0, y |-> 1], [x |-> 1, y |-> 1] >>

(***************************************************************************)
(* Grid-order claims                                                       *)
(***************************************************************************)
AbsDiff(a, b) == IF a < b THEN b - a ELSE a - b

\* Two cells one step apart along one axis.
EdgeAdjacent(c, e) == AbsDiff(c.x, e.x) + AbsDiff(c.y, e.y) = 1

\* Every cell of the side x side grid exactly once.
VisitsGridOnce(cells, side) ==
    /\ Len(cells) = side * side
    /\ \A k \in 1..Len(cells) : cells[k].x \in 0..(side - 1) /\ cells[k].y \in 0..(side - 1)
    /\ \A k, m \in 1..Len(cells) : cells[k] = cells[m] => k = m

\* C21: generateGray visits every cell of the 2^n x 2^n grid exactly once,
\* cells at consecutive indices differ in exactly one of the two coordinates,
\* and for n = 1 it visits the 4 cells of Z-order with consecutive cells one
\* coordinate step apart.
C21_GrayAdjacency ==
    /\ \A k, m \in 1..Len(grCells) : grCells[k] = grCells[m] => k = m
    /\ \A k \in 1..(Len(grCells) - 1) :
          (grCells[k].x # grCells[k + 1].x) # (grCells[k].y # grCells[k + 1].y)
    /\ grPc = "done" => VisitsGridOnce(grCells, 2 ^ gmN)
    /\ (grPc = "done" /\ gmN = 1) =>
          /\ { grCells[k] : k \in 1..4 } = { ZOrderCell(i, 1) : i \in 0..3 }
          /\ \A k \in 1..3 : EdgeAdjacent(grCells[k], grCells[k + 1])

\* The 4 x 4 grid is complete; its fourth and fifth cells differ in y alone,
\* by two steps.
C21_Witness ==
    /\ grPc = "done" /\ gmN = 2 /\ Len(grCells) = 16
    /\ grCells[4] = [x |-> 1, y |-> 0]
    /\ grCells[5] = [x |-> 1, y |-> 2]

\* C22: for every n >= 1 generateMoore(n) visits every cell of the 2^n x 2^n
\* grid exactly once, consecutive cells are edge-adjacent, and the last cell is
\* edge-adjacent to the first.
C22_MooreClosedLoop ==
    (moPc = "done" /\ gmN >= 1) =>
        /\ VisitsGridOnce(moCells, 2 ^ gmN)
        /\ \A k \in 1..(Len(moCells) - 1) : EdgeAdjacent(moCells[k], moCells[k + 1])
        /\ EdgeAdjacent(moCells[Len(moCells)], moCells[1])

\* The cell of the 3^n x 3^n grid whose corner generatePeano emitted as p
\* under view v.
CornerCell(p, v) ==
    [x |-> (p.x - v.offsetX * p.den) \div v.zoomLevel,
     y |-> (p.y - v.offsetY * p.den) \div v.zoomLevel]

\* C23: for every depth n >= 0 generatePeano(n) emits 9^n points, one for each
\* cell of the 3^n x 3^n grid with no cell repeated, and consecutive points
\* lie in edge-adjacent cells.
C23_PeanoContinuous ==
    pePc = "done" =>
        LET cells == [k \in 1..Len(pePoints) |-> CornerCell(pePoints[k], gmView)]
        IN  /\ Len(pePoints) = 9 ^ gmN
            /\ VisitsGridOnce(cells, 3 ^ gmN)
            /\ \A k \in 1..(Len(cells) - 1) : EdgeAdjacent(cells[k], cells[k + 1])

(***************************************************************************)
(* Claims about the page of spaceFill.js.                                   *)
(***************************************************************************)
\* Two arrays of points hold the same numbers (0 / 0 taken as one value).
SamePoints(a, b) ==
    /\ Len(a) = Len(b)
    /\ \A k \in 1..Len(a) :
          /\ (a[k].den = 0) = (b[k].den = 0)
          /\ a[k].x * b[k].den = b[k].x * a[k].den
          /\ a[k].y * b[k].den = b[k].y * a[k].den
          /\ ("hx" \in DOMAIN a[k]) = ("hx" \in DOMAIN b[k])
          /\ "hx" \in DOMAIN a[k] =>
                /\ a[k].hx * b[k].den = b[k].hx * a[k].den
                /\ a[k].hy * b[k].den = b[k].hy * a[k].den

\* C24: two calls of generateCurvePoints with the same family and depth (the
\* canvas size being the same) return the same ordered list of points,
\* whatever wheel, drag or reset events happened in between, and a family the
\* switch does not know yields the empty list.
C24_GeneratorsIgnoreView ==
    /\ \A a \in cpCalls, b \in cpCalls :
          (a.curve = b.curve /\ a.depth = b.depth) => SamePoints(a.pts, b.pts)
    /\ \A a \in cpCalls : a.curve = "dragon" => a.pts = <<>>

\* C29: at most one callback that will call drawNextPoint is pending.
C29_SingleChain ==
    (IF cpTimerLast THEN 1 ELSE 0) + cpTimersOld + cpFrames <= 1

(***************************************************************************)
(* Claims about generateMandelbulb and generateJulia3D.                     *)
(***************************************************************************)
\* The orbit of the seed at check n, the loop being followed without its
\* break: c is the seed itself for the Mandelbulb, the fixed constant for
\* the Julia set.
RECURSIVE BulbOrbitAt(_, _, _, _)
BulbOrbitAt(seed, c, power, n) ==
    IF n = 0 THEN Vec3(seed[1], seed[2], seed[3])
    ELSE BulbStep(BulbOrbitAt(seed, c, power, n - 1), c, power)

\* r never exceeded bailout at any of the checks
NeverEscapes(seed, c, a) ==
    \A n \in 0..(a.iterations - 1) :
        ~ExceedsBailout(BulbOrbitAt(seed, c, a.power, n), a.bailout)

\* the seeds of the samples so far that are to be retained, in order
RECURSIVE RetainedSeeds(_, _)
RetainedSeeds(k, a) ==
    IF k = 0 THEN <<>>
    ELSE LET seed == b3Seeds[k]
             c    == IF b3Family = "mandelbulb" THEN seed ELSE a.c
         IN  RetainedSeeds(k - 1, a) \o
                (IF NeverEscapes(seed, c, a)
                 THEN << Vec3(seed[1], seed[2], seed[3]) >> ELSE <<>>)

\* C25: in both generators the result holds, in order, the seed coordinates
\* of exactly the samples whose radius r never exceeded bailout at any of the
\* `iterations` checks, and it has at most `density` points.
C25_RetainedSeeds ==
    b3Pc \in {"loop", "done"} =>
        /\ b3Result = RetainedSeeds(Len(b3Seeds), b3Args)
        /\ Len(b3Result) <= b3Args.density

(***************************************************************************)
(* Claims about newtonConverge.                                             *)
(***************************************************************************)
\* z after n Newton updates from z0
RECURSIVE NewtonIterate(_, _, _)
NewtonIterate(z0, k, n) ==
    IF n = 0 THEN z0
    ELSE LET z == NewtonIterate(z0, k, n - 1)
         IN  cSub(z, cDiv(f(z, k), derivF(z, k)))

\* the derivative at step n is zero or not finite
DerivativeFails(a, n) ==
    LET dfz == derivF(NewtonIterate(a.z0, a.k, n), a.k)
    IN  dfz.d = 0 \/ (dfz.n = 0 /\ dfz.m = 0)

\* |f| is below tol at step n
ResidualSmall(a, n) == cAbsLessTol(f(NewtonIterate(a.z0, a.k, n), a.k))

\* The run meets a failing derivative at one of the steps it makes, or makes
\* all maxIter steps without |f| < tol.
MustGiveUp(a) ==
    \/ \E n \in 0..(a.maxIter - 1) :
          /\ DerivativeFails(a, n)
          /\ \A m \in 0..(n - 1) : ~ResidualSmall(a, m) /\ ~DerivativeFails(a, m)
    \/ \A n \in 0..(a.maxIter - 1) : ~ResidualSmall(a, n)

\* C26: newtonConverge returns either {hit: true, idx, iter} with
\* 0 <= idx < roots.length and 0 <= iter < maxIter, or the sentinel
\* {hit: false, idx: -1, iter: maxIter}; it returns the sentinel whenever the
\* derivative is zero or not finite at a step or the budget runs out
\* (maxIter = 0 included), and then leaves the registry as it was.
C26_SentinelOrHit ==
    ncPc = "called" =>
        /\ \/ /\ ncResult.hit
              /\ 0 <= ncResult.idx /\ ncResult.idx < Len(ncRoots)
              /\ 0 <= ncResult.iter /\ ncResult.iter < ncArgs.maxIter
           \/ /\ ncResult = [hit |-> FALSE, idx |-> -1, iter |-> ncArgs.maxIter]
              /\ ncRoots = ncBefore
        /\ MustGiveUp(ncArgs) => ~ncResult.hit

\* A call at the double root 1 of f for k = -2 gave up at its first step,
\* with a budget left, on a registry that already held a root.
C26_Witness ==
    /\ ncPc = "called"
    /\ ncArgs = [z0 |-> CReal(1), k |-> CReal(-2), maxIter |-> 2]
    /\ ~ncResult.hit
    /\ Len(ncBefore) > 0

(***************************************************************************)
(* Claims about the argument of juliaEscape.                                *)
(***************************************************************************)
\* C27: after juliaEscape(z) has returned, the object passed as z still
\* holds the re and im it had at the call.
C27_ArgumentUntouched ==
    jIter # -1 => jArg = escP

(***************************************************************************)
(* Claims about the plane-iteration visualiser.                             *)
(***************************************************************************)
\* C28: once a play/pause click has resumed after a pause made before the
\* last step, or after a clear, animate goes on advancing stepIndex until the
\* last step is reached, unless another click comes first.
C28_ResumeCompletes ==
    (pvLast = "resume") ~> (pvLast # "resume" \/ pvStep >= pvLen)

(***************************************************************************)
(* Claims about the views of the 2D viewers.                                *)
(***************************************************************************)
\* C30: zoomLevel * (xMax - xMin) keeps the value it had at first, 1 * 4,
\* after any zoom-in, zoom-out, pan and reset, and xMin < xMax.
C30_ZoomTracksWidth ==
    apPc = "ready" =>
        /\ apView.zoomLevel * (apView.xMax - apView.xMin) = 4 * apView.den * apView.den
        /\ apView.xMin < apView.xMax

====
